---------------------------- MODULE DiveClients ----------------------------
(***************************************************************************)
(* The programs that use the device manager, one session after the other   *)
(* on one device: the command line client (dive_client_cli.cc) and the     *)
(* capture, what-if and replay dialogs of the user interface, which share  *)
(* one DeviceManager.  A session begins with SelectDevice and ends when    *)
(* the AndroidDevice is destroyed, or when the host crashes.               *)
(***************************************************************************)
EXTENDS DeviceManager

CONSTANTS
    Commands,    \* the programs to explore: commands of the client, dialogs
    Shown,       \* the kinds of application that the dialogs start
    Replays,     \* settings of replays
    Originals,   \* states of a device before Dive: sets of "root", "permissive"
    MaxRounds    \* GFXR captures in one session of the command line client

NoReplay == [run |-> "Normal", validation |-> FALSE, debugger |-> FALSE]

NoJob ==
    [cmd |-> "none", type |-> "none", gfxr |-> FALSE, shows |-> "StartApplication"]

\* What the validators let the command line client start.
CliJobs ==
    {[NoJob EXCEPT !.cmd = c, !.type = t] : c \in {"run", "pm4_capture"}, t \in Types}
    \cup {[NoJob EXCEPT !.cmd = "gfxr_capture", !.type = t, !.gfxr = TRUE] : t \in Types}
    \cup {[NoJob EXCEPT !.cmd = c] : c \in {"gfxr_replay", "cleanup"}}

LaterPorts == {Ports[i] : i \in DOMAIN Ports \ {1}}

\* before is the part of the device's state that sessions need not leave clean.
NewHistory ==
    [before |-> device \cap ({"root", "permissive", "delimiter", "clockBounds"} \cup LaterPorts),
     faulty |-> FALSE, misled |-> FALSE]

Init ==
    /\ device \in Originals
    /\ todo = <<>>
    /\ ok = TRUE
    /\ dev = NoDev
    /\ app = NoApp
    /\ faults = 0
    /\ history = NewHistory
    /\ job = NoJob

\* The end of main or of a handler, where an error is reported and dropped.
Reported == End(FALSE, TRUE)

\* Every program first selects the device; when that fails there is none.
SelectDevice ==
    /\ ~dev.alive
    /\ ~Busy
    /\ job' = NoJob
    /\ history' = NewHistory
    /\ todo' = Create \o <<Reported, Call("DestroyUnlessSelected")>>
    /\ UNCHANGED <<device, ok, dev, app, faults>>

(***************************************************************************)
(* The command line client: what main runs after the device is selected.   *)
(***************************************************************************)
InternalRunPackage == <<Note("SetGfxrCaptureSettings"), Call("SetupApp"), Call("Start")>>

\* IsAppRunningOnForeground, Connect, StartPm4Capture, the download.
TriggerPm4Capture == <<Needing(Run, {"process"}), Run>>

\* One round of the loop of CmdGfxrCapture; the retrieval may fail.
TriggerGfxrCapture ==
    <<Needing(Run, {"process"}), Run, Adb("lsof")>>

CaptureDirCleanup == Defer(<<Clear({"captureDir"})>>)

Executor(j, rounds, replay) ==
    CASE j.cmd = "run" -> InternalRunPackage
      [] j.cmd = "pm4_capture" -> InternalRunPackage \o TriggerPm4Capture
      [] j.cmd = "gfxr_capture" ->
            InternalRunPackage \o <<CaptureDirCleanup>>
            \o FlattenSeq([i \in 1 .. rounds |-> TriggerGfxrCapture])
      [] j.cmd = "gfxr_replay" ->
            <<Call("DeployReplayApk"), CallOn("RunReplayApk", replay)>>
      [] j.cmd = "cleanup" -> CleanupPackageProperties

\* main, with InitializeDevice done; the device is destroyed when it returns.
CliMain(j) ==
    /\ job.cmd = "none"
    /\ j.cmd \in Commands
    /\ dev.selected
    /\ ~Busy
    /\ job' = j
    /\ \E rounds \in 0 .. (IF j.cmd = "gfxr_capture" THEN MaxRounds ELSE 0),
          replay \in (IF j.cmd = "gfxr_replay" THEN Replays ELSE {NoReplay}) :
          todo' = <<Call("SetupDevice")>> \o Executor(j, rounds, replay)
                      \o <<Reported, Call("DestroyDevice")>>
    /\ UNCHANGED <<device, ok, dev, app, faults, history>>

(***************************************************************************)
(* The dialogs.  A handler runs to its end before the next one.  The run   *)
(* button shows StartApplication again when the application has been       *)
(* stopped or could not be started, not when it ends by itself.            *)
(***************************************************************************)
Dialogs == {"trace_dialog", "what_if_dialog", "analyze_dialog"}

DialogReady(d) ==
    /\ d \in Commands
    /\ job.cmd \in {"none", d}
    /\ dev.selected
    /\ ~Busy

AppIsRunning == app.type # "none" /\ "process" \in device

\* IsRunning at the end: an application that has ended at once is an error.
StartPackage ==
    <<Ignoring("Destroy"), Call("SetupApp"), Call("Start"), Needing(Run, {"process"}),
      Note("StopApplication"), Reported>>

\* The what-if dialog has a function of its own that runs the same commands.
WhatIfStartPackage == StartPackage

StopAndCleanup == <<Ignoring("Stop"), Call("Cleanup")>>

\* m_gfxr_capture: ResetTraceDialogOnAppStop selects GFXR captures again.
GfxrSelected == dev.gfxr \/ job.shows = "StartApplication"

\* The precondition that StopPackageAndCleanup and closeEvent refuse.
GfxrCaptureInProcess == AppIsRunning /\ job.shows = "RetrieveCapture"

StopPackageAndCleanup ==
    IF ~AppIsRunning THEN <<>>
    ELSE (IF GfxrSelected THEN Ignored(<<Clear({"captureDir"})>>) ELSE <<>>) \o StopAndCleanup

WhatIfStopPackage == IF AppIsRunning THEN StopAndCleanup ELSE <<>>

OnStartPackage(t, g) ==
    /\ DialogReady("trace_dialog")
    /\ job.shows = "StartApplication"
    /\ job' = [job EXCEPT !.cmd = "trace_dialog", !.type = t, !.gfxr = g]
    /\ todo' = <<Note("SetGfxrCaptureSettings"), Call("SetupDevice")>> \o StartPackage
    /\ UNCHANGED <<device, ok, dev, app, faults, history>>

\* The run button is disabled while a GFXR capture is in process.
OnStopPackage ==
    /\ DialogReady("trace_dialog")
    /\ job.shows = "StopApplication"
    /\ todo' = <<Ignoring("StopPackageAndCleanup"), Note("StartApplication")>>
    /\ UNCHANGED <<device, ok, dev, app, faults, history, job>>

\* OnTraceClicked and OnGfxrCaptureClicked when the application has ended.
OnCaptureClickedAfterExit ==
    /\ DialogReady("trace_dialog")
    /\ job.shows = "StopApplication"
    /\ ~AppIsRunning
    /\ todo' = <<Note("StartApplication"), Ignoring("Cleanup")>>
    /\ UNCHANGED <<device, ok, dev, app, faults, history, job>>

\* OnGfxrCaptureClicked when the button shows that a capture can be started: the
\* foreground check, the trigger and a screenshot in the capture directory.
OnGfxrCaptureStart ==
    /\ DialogReady("trace_dialog")
    /\ job.shows = "StopApplication"
    /\ dev.gfxr
    /\ AppIsRunning
    /\ todo' = <<Needing(Run, {"process"}), Run, Note("RetrieveCapture"), Reported>>
    /\ UNCHANGED <<device, ok, dev, app, faults, history, job>>

\* OnGfxrCaptureClicked otherwise, whether or not the application still runs.  If
\* the trigger cannot be reset, the capture stays in process.  The worker that
\* downloads the files only reads the device.
OnGfxrCaptureRetrieve ==
    /\ DialogReady("trace_dialog")
    /\ job.shows = "RetrieveCapture"
    /\ todo' = <<Run, Note("StopApplication"), Reported>>
    /\ UNCHANGED <<device, ok, dev, app, faults, history, job>>

\* The what-if dialog sets the device up at every click.
OnStartClicked(t) ==
    /\ DialogReady("what_if_dialog")
    /\ LET start == job.shows = "StartApplication"
       IN  /\ job' = [job EXCEPT !.cmd = "what_if_dialog", !.type = IF start THEN t ELSE @]
           /\ todo' = <<Note("EnableRuntimeWhatIf"), Call("SetupDevice")>>
                        \o IF start THEN WhatIfStartPackage
                           ELSE <<Ignoring("WhatIfStopPackage"), Note("StartApplication"), Reported>>
    /\ UNCHANGED <<device, ok, dev, app, faults, history>>

\* ReplayImpl, for one kind of replay.  The files that PushFilesToDevice pushes
\* stay on the device, and nothing depends on them later.
OnReplay(r) ==
    /\ DialogReady("analyze_dialog")
    /\ job' = [job EXCEPT !.cmd = "analyze_dialog"]
    /\ todo' = <<Call("SetupDevice"), Run, Call("DeployReplayApk"), CallOn("RunReplayApk", r), Reported>>
    /\ UNCHANGED <<device, ok, dev, app, faults, history>>

\* closeEvent, and RemoveDevice when the program ends.  The capture dialog ignores
\* the event while a GFXR capture is in process.
CloseDialog ==
    /\ \E d \in Dialogs : DialogReady(d)
    /\ ~GfxrCaptureInProcess
    /\ todo' = (CASE job.cmd = "trace_dialog" -> <<Ignoring("StopPackageAndCleanup")>>
                 [] job.cmd = "what_if_dialog" -> <<Ignoring("WhatIfStopPackage")>>
                 [] OTHER -> <<>>) \o <<Call("DestroyDevice")>>
    /\ UNCHANGED <<device, ok, dev, app, faults, history, job>>

----------------------------------------------------------------------------
\* What a function does, as a script.
Body(c) ==
    CASE c.fn = "RequestRootAccess" -> RequestRootAccess
      [] c.fn = "CleanupDevice" -> CleanupDevice
      [] c.fn = "InitDevice" -> InitDevice
      [] c.fn = "SetupDevice" -> SetupDevice
      [] c.fn = "SetupApp" -> SetupApp
      [] c.fn = "SetupMadeApp" -> SetupMadeApp
      [] c.fn = "Construct" -> Construct
      [] c.fn = "Setup" -> Setup
      [] c.fn = "Cleanup" -> Cleanup
      [] c.fn = "Start" -> Start
      [] c.fn = "Stop" -> Stop
      [] c.fn = "Destroy" -> Destroy
      [] c.fn = "DestroyDevice" -> DestroyDevice
      [] c.fn = "DestroyUnlessSelected" -> DestroyUnlessSelected
      [] c.fn = "DeployReplayApk" -> DeployReplayApk
      [] c.fn = "RunReplayApk" -> RunReplayApk(c.arg)
      [] c.fn = "PinGpuClock" -> PinGpuClock
      [] c.fn = "UnpinIfPinned" -> UnpinIfPinned
      [] c.fn = "StopPackageAndCleanup" -> StopPackageAndCleanup
      [] c.fn = "WhatIfStopPackage" -> WhatIfStopPackage

CallFunction ==
    /\ Running("call")
    /\ Enter(Body(Head(todo)))
    /\ UNCHANGED <<device, dev, app, faults, history>>

HostStep ==
    \/ TakeNote
    \/ /\ \/ RunCommand \/ CommandRefused \/ CommandLost \/ PortBusy
          \/ CallFunction \/ ArmCleanup \/ EndScope
       /\ UNCHANGED job

Next ==
    \/ SelectDevice
    \/ \E j \in CliJobs : CliMain(j)
    \/ HostStep
    \/ HostCrash /\ UNCHANGED job
    \/ ProcessExits /\ UNCHANGED job
    \/ \E t \in Shown, g \in BOOLEAN : OnStartPackage(t, g)
    \/ OnStopPackage
    \/ OnCaptureClickedAfterExit
    \/ OnGfxrCaptureStart
    \/ OnGfxrCaptureRetrieve
    \/ \E t \in Shown \ {"GLES"} : OnStartClicked(t)
    \/ \E r \in Replays : OnReplay(r)
    \/ CloseDialog

Spec == Init /\ [][Next]_vars

----------------------------------------------------------------------------
SessionOver == ~dev.alive /\ ~Busy

\* The marks that are not of the application's own storage and properties.
DeviceWide ==
    {"gpuLock", "compositor", "debugDelimiter", "delimiter", "manifest", "signalFile",
     "layers", "renderDocProp", "validationLib", "replayAccess", "replayApk", "verifier",
     "debugApp", "pm4Dump", "pm4DumpFile", "deploy", "rtDeployed", "profilingDir",
     "clockBounds"} \cup Range(Ports)

\* A session without a fault leaves no device-wide setting behind, whatever
\* crashed and failed sessions before it had left: the constructor and the
\* destructor of AndroidDevice both run CleanupDevice.  There are three exceptions,
\* which the formula names.  The frame delimiter of an earlier session needs root to
\* be removed.  CleanupDevice removes the forward of the object's current port only,
\* and a new object begins at the first one: a forward on a later port stays after a
\* crash, and a dialog, which sets the device up again and again, can leave one of
\* its own.  No command resets the bounds of the GPU clock that a replay has pinned.
DeviceLeftClean ==
    SessionOver /\ ~history.faulty =>
        /\ device \cap DeviceWide \subseteq {"delimiter", "clockBounds"} \cup LaterPorts
        /\ "delimiter" \in device => "delimiter" \in history.before
        /\ job.cmd \notin Dialogs => device \cap LaterPorts \subseteq history.before
        /\ job.cmd \notin {"gfxr_replay", "analyze_dialog"} =>
              ("clockBounds" \in device => "clockBounds" \in history.before)

\* The modes and libraries that capturing an APK puts on a device are gone after
\* a session of the command line client without a fault, also when an earlier
\* session of the same kind has crashed; the destructor of the application runs
\* after that of the device, on a device that is clean and no longer root.
ApplicationLeftClean ==
    SessionOver /\ ~history.faulty =>
        /\ job.cmd \in {"run", "pm4_capture"} /\ job.type \in {"VULKAN", "GLES"} =>
              device \cap {"wrap", "vkLib", "globalDir", "vulkanLayers"} = {}
        /\ job.cmd = "gfxr_capture" /\ job.type = "VULKAN" =>
              device \cap {"gfxrProps", "gfxrLib", "captureDir", "wrap"} = {}
        /\ job.type = "CLI" => device \cap {"globalDir", "vulkanLayers"} = {}

\* What SetupDevice and replays put on the device.
ReplayMarks ==
    {"verifier", "compositor", "debugApp", "pm4Dump", "pm4DumpFile", "renderDocProp",
     "layers", "validationLib", "profilingDir", "gpuLock", "deploy", "replayApk",
     "replayAccess", "signalFile", "clockBounds"}

\* What they leave to CleanupDevice.
LeftForCleanup == {"deploy", "replayApk", "replayAccess", "signalFile"}

\* The command line client or the dialog gets the result of a replay.
ReplayReturned ==
    \/ Running("call") /\ Head(todo).fn = "DestroyDevice" /\ job.cmd = "gfxr_replay"
    \/ dev.selected /\ ~Busy /\ job.cmd = "analyze_dialog"

\* However a replay ends, it has taken back what it has set for the replay alone,
\* unless the command that takes it back fails or the device has executed a command
\* whose failure was reported: the cleanups armed by DeployReplayApk, RunReplayApk
\* and the function that runs the replay.  Besides the files left to CleanupDevice
\* there are two exceptions: the bounds of the GPU clock, which UnpinGpuClock does
\* not reset, and, if a command of PinGpuClock has failed, the lock of the clock.
ReplayUndone ==
    ReplayReturned /\ ~history.misled =>
        device \cap ReplayMarks \subseteq
            LeftForCleanup \cup {"clockBounds"} \cup (IF dev.pinned THEN {} ELSE {"gpuLock"})

\* A session without a fault gives the device back its mode of SELinux and the
\* rights of its shell, as CleanupDevice announces.  It does not:
\* RequestRootAccess records the mode at each of its calls, and from the second
\* call on that is the mode that Dive itself has set.
OriginalStateRestored ==
    SessionOver /\ ~history.faulty => device \cap {"root", "permissive"} = history.before \cap {"root", "permissive"}
============================================================================
