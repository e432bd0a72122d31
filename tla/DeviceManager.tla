--------------------------- MODULE DeviceManager ---------------------------
(***************************************************************************)
(* AndroidDevice and DeviceManager (capture_service/device_mgr.cc): what   *)
(* is put on a device for a capture or a replay, and taken off it again.   *)
(* The AndroidDevice object is                                             *)
(*                                                                         *)
(*    [alive, selected, rootRequested, enforce, isRoot, port, gfxr,        *)
(*     whatIf, pinned]                                                     *)
(*                                                                         *)
(* with m_original_state in rootRequested, enforce and isRoot, and the     *)
(* negation of RunReplayApk's trouble_pinning_clock in pinned; selected    *)
(* once Create has succeeded and m_device is assigned.  Marks of           *)
(* the device's own state are "root" (adbd runs as root) and "permissive"  *)
(* (SELinux does not enforce).                                             *)
(*                                                                         *)
(* The host may crash at any command.  Its objects are then lost; what it  *)
(* had put on the device is not.                                           *)
(***************************************************************************)
EXTENDS AndroidApplication

CONSTANT Ports   \* the marks of the forwarded ports, from kFirstPort on

ASSUME PortsAssumption == Ports \in Seq(STRING) /\ Ports # <<>>

VARIABLE job   \* what the session was started for, and what its dialog shows

vars == <<device, todo, ok, dev, app, faults, history, job>>

NoDev ==
    [alive |-> FALSE, selected |-> FALSE, rootRequested |-> FALSE, enforce |-> "none",
     isRoot |-> FALSE, port |-> 1, gfxr |-> FALSE, whatIf |-> FALSE, pinned |-> FALSE]

(***************************************************************************)
(* RequestRootAccess.  Every call records the current mode of SELinux as   *)
(* the original one.                                                       *)
(***************************************************************************)
RequestRootAccess ==
    <<Set("root"), Adb("rootRequested"), Adb("getenforce"),
      Needing(Set("permissive"), {"root"})>>

RestoreRootAccess ==
    IF ~dev.rootRequested THEN <<>>
    ELSE Ignored(
            (CASE dev.enforce = "Enforcing" -> <<Needing(Clear({"permissive"}), {"root"})>>
               [] dev.enforce = "Permissive" -> <<Needing(Set("permissive"), {"root"})>>
               [] dev.enforce = "none" -> <<>>)
            \o IF dev.isRoot THEN <<>> ELSE <<Clear({"root"})>>)

\* Init, with CheckAbi; whoami decides about root.
InitDevice ==
    <<Run>> \o Ignored(<<Adb("whoami")>>) \o <<Run>>

\* The attempt to forward port i; PortBusy goes on to the next one.
ForwardPort(i) == [Set(Ports[i]) EXCEPT !.fn = "forward"]

ForwardFirstAvailablePort == <<ForwardPort(1)>>

SetupDevice ==
    IF dev.whatIf THEN ForwardFirstAvailablePort
    ELSE DeployDeviceResource("deploy")
         \o IF dev.gfxr THEN <<>>
            ELSE <<Call("RequestRootAccess")>>
                 \o DeployDeviceResource("deploy") \o DeployDeviceResource("deploy")
                 \o ForwardFirstAvailablePort

\* "clockBounds", the minimum and the maximum clock that PinGpuClock has written, stay.
UnpinGpuClock == Clear({"gpuLock"})

\* Mutant: the settings of a PM4 dump are left to the replay that set them.
CleanupDevice_KeepsPm4Dump ==
    Ignored(<<UnpinGpuClock, Clear({"compositor"})>> \o ClearFrameDelimiter)
    \o RestoreRootAccess
    \o Ignored(
        <<Clear({"manifest"}), Clear({"signalFile"}), Clear({Ports[dev.port]}),
          ClearLayerSettings, Clear({"renderDocProp"}), Clear({"replayAccess"}),
          Clear({"replayApk", "validationLib"}), Clear({"verifier"}), Clear({"debugApp"}),
          Clear({"deploy", "rtDeployed", "profilingDir"})>>)

CleanupDevice ==
    Ignored(<<UnpinGpuClock, Clear({"compositor"})>> \o ClearFrameDelimiter)
    \o RestoreRootAccess
    \o Ignored(
        <<Clear({"manifest"}), Clear({"signalFile"}), Clear({Ports[dev.port]}),
          ClearLayerSettings, Clear({"renderDocProp"}),
          CleanupFileWithPermissions("validationLib"), Clear({"replayAccess"}),
          Clear({"replayApk", "validationLib"}), Clear({"verifier"}), Clear({"debugApp"}),
          Clear({"pm4Dump"}), Clear({"pm4DumpFile"}),
          Clear({"deploy", "rtDeployed", "profilingDir"})>>)

\* SetupApp for each kind, after the object is made.
SetupMadeApp ==
    (IF app.type = "OPENXR" /\ dev.gfxr
        THEN <<Call("RequestRootAccess")>> \o SetFrameDelimiter ELSE <<>>)
    \o (IF app.type = "CLI" THEN <<Call("RequestRootAccess")>> ELSE <<>>)
    \o <<Note("SetModes"), Call("Setup")>>

\* CleanupApp, or the state before the first SetupApp, has left m_app empty.
SetupApp == <<Note(job.type), Call("Construct"), Call("SetupMadeApp")>>

----------------------------------------------------------------------------
(***************************************************************************)
(* Replay.  The settings of one are [run, validation, debugger].           *)
(***************************************************************************)
ReplayRuns == {"Normal", "Pm4Dump", "PerfCounters", "GpuTiming", "RenderDoc"}

DeployReplayApk ==
    <<Run>> \o Ignored(<<Set("verifier")>>)
    \o <<Defer(<<Clear({"verifier"})>>), Run, Set("replayApk"), Set("replayAccess")>>

\* ValidateGfxrReplaySettings: the combinations that it refuses.
ValidSettings(r) ==
    ~(r.validation /\ r.run \in {"PerfCounters", "RenderDoc"})

EnableVulkanLayer == LayerSettings

DisableVulkanLayer == Clear({"layers"})

ScriptCleanup(r) ==
    (CASE r.run = "Pm4Dump" -> <<Clear({"pm4Dump"}), Clear({"pm4DumpFile"})>>
       [] r.run = "RenderDoc" -> <<Clear({"renderDocProp"}), DisableVulkanLayer>>
       [] OTHER -> <<>>)
    \o IF r.validation
       THEN <<DisableVulkanLayer, CleanupFileWithPermissions("validationLib")>> ELSE <<>>

\* Mutant: the cleanup is armed once the replay is set up.
RunReplayGfxrScript_ArmsLate(r) ==
    (CASE r.run = "Pm4Dump" -> <<Set("pm4Dump"), Set("pm4DumpFile")>>
       [] r.run = "RenderDoc" -> <<Run, Set("renderDocProp")>> \o EnableVulkanLayer
       [] OTHER -> <<>>)
    \o <<Defer(ScriptCleanup(r)), Run, Needing(Set("signalFile"), {"replayApk"})>>

RunReplayGfxrScript(r) ==
    <<Defer(ScriptCleanup(r))>>
    \o (CASE r.run = "Pm4Dump" -> <<Set("pm4Dump"), Set("pm4DumpFile")>>
          [] r.run = "RenderDoc" -> <<Run, Set("renderDocProp")>> \o EnableVulkanLayer
          [] OTHER -> <<>>)
    \o (IF r.validation
           THEN DeployDeviceResource("deploy")
                \o <<Needing(CopyWithPermissions("validationLib"), {"deploy", "replayApk"})>>
                \o EnableVulkanLayer
           ELSE <<>>)
    \o <<Run, Needing(Set("signalFile"), {"replayApk"})>>
    \o IF r.run = "Normal" THEN <<>> ELSE <<Run>>

RunReplayProfilingBinary ==
    <<Run, Set("deploy"), Set("profilingDir"), Defer(<<Clear({"profilingDir"})>>), Run>>

\* The clock is pinned only if the compositor could be set; a failure of either
\* is only noted.
PinGpuClock ==
    <<Set("compositor"), Set("gpuLock"), Set("clockBounds"), Run, Note("Pinned")>>

UnpinIfPinned == IF dev.pinned THEN Ignored(<<UnpinGpuClock>>) ELSE <<>>

RunReplayApk(r) ==
    IF ~ValidSettings(r) THEN <<Needing(Run, {"validSettings"})>>
    ELSE <<Run, Note("NotPinned"), Ignoring("PinGpuClock"),
           Defer(<<Clear({"compositor"})>>), Defer(<<Call("UnpinIfPinned")>>)>>
         \o (IF r.debugger
                THEN <<Set("debugApp"), Defer(<<Clear({"debugApp"})>>)>> ELSE <<>>)
         \o <<Run>>
         \o IF r.run = "PerfCounters" THEN RunReplayProfilingBinary ELSE RunReplayGfxrScript(r)

----------------------------------------------------------------------------
(***************************************************************************)
(* ~AndroidDevice: CleanupDevice first, then the member m_app.             *)
(***************************************************************************)
DestroyDevice == <<Ignoring("CleanupDevice"), Ignoring("Destroy"), Note("DropDevice")>>

\* AndroidDevice::Create; a device whose Init fails is destroyed.
Create ==
    <<Note("NewDevice"), Ignoring("CleanupDevice"), Call("InitDevice"), Note("Selected")>>

DestroyUnlessSelected == IF dev.selected THEN <<>> ELSE DestroyDevice

----------------------------------------------------------------------------
\* What the run button of a dialog shows; in the last case it is disabled, and the
\* button for GFXR captures offers to retrieve the one in process.
Buttons == {"StartApplication", "StopApplication", "RetrieveCapture"}

\* The objects after a command or an assignment.
DevAfter(fn) ==
    CASE fn = "NewDevice" -> [NoDev EXCEPT !.alive = TRUE]
      [] fn = "DropDevice" -> NoDev
      [] fn = "Selected" -> [dev EXCEPT !.selected = TRUE]
      [] fn = "rootRequested" -> [dev EXCEPT !.rootRequested = TRUE]
      [] fn = "getenforce" ->
            [dev EXCEPT !.enforce =
                IF "permissive" \in device THEN "Permissive" ELSE "Enforcing"]
      [] fn = "whoami" -> [dev EXCEPT !.isRoot = "root" \in device]
      [] fn = "forward" ->
            [dev EXCEPT !.port = CHOOSE i \in DOMAIN Ports : Ports[i] \in Head(todo).add]
      [] fn = "SetGfxrCaptureSettings" -> [dev EXCEPT !.gfxr = job.gfxr]
      [] fn = "EnableRuntimeWhatIf" -> [dev EXCEPT !.whatIf = TRUE]
      [] fn = "Pinned" -> [dev EXCEPT !.pinned = TRUE]
      [] fn = "NotPinned" -> [dev EXCEPT !.pinned = FALSE]
      [] OTHER -> dev

AppAfter(fn) ==
    CASE fn \in Types -> Application(fn)
      [] fn = "DropApp" -> NoApp
      [] fn = "SetModes" ->
            [app EXCEPT !.gfxr = dev.gfxr, !.whatIf = dev.whatIf /\ app.type # "CLI"]
      [] fn = "ResetModes" -> [app EXCEPT !.gfxr = FALSE, !.whatIf = FALSE]
      [] fn = "started" -> [app EXCEPT !.started = TRUE]
      [] fn = "isRunning" -> [app EXCEPT !.started = "process" \in device]
      [] fn = "stopped" -> [app EXCEPT !.started = FALSE]
      [] OTHER -> app

RunCommand ==
    /\ Running("adb")
    /\ Head(todo).need \subseteq device
    /\ device' = DeviceAfter(Head(todo))
    /\ dev' = DevAfter(Head(todo).fn)
    /\ app' = AppAfter(Head(todo).fn)
    /\ todo' = Tail(todo)
    /\ UNCHANGED <<ok, faults, history>>

\* What the dialog shows is all that the host notes about its job.
TakeNote ==
    /\ Running("note")
    /\ dev' = DevAfter(Head(todo).fn)
    /\ app' = AppAfter(Head(todo).fn)
    /\ job' = IF Head(todo).fn \in Buttons THEN [job EXCEPT !.shows = Head(todo).fn] ELSE job
    /\ todo' = Tail(todo)
    /\ UNCHANGED <<device, ok, faults, history>>

\* The port belongs to another program; the next one is tried.  That is bounded
\* like a fault, but nothing has failed.
PortBusy ==
    /\ Running("adb")
    /\ Head(todo).fn = "forward"
    /\ Head(todo).add \cap device = {}
    /\ faults < MaxFaults
    /\ faults' = faults + 1
    /\ LET i == CHOOSE i \in DOMAIN Ports : Ports[i] \in Head(todo).add
       IN  IF i < Len(Ports)
           THEN todo' = <<ForwardPort(i + 1)>> \o Tail(todo) /\ UNCHANGED ok
           ELSE Fails(Head(todo))
    /\ UNCHANGED <<device, dev, app, history>>

\* The host process dies, and with it both objects.
HostCrash ==
    /\ dev.alive
    /\ Waiting
    /\ faults < MaxFaults
    /\ faults' = faults + 1
    /\ history' = [history EXCEPT !.faulty = TRUE]
    /\ todo' = <<>>
    /\ ok' = TRUE
    /\ dev' = NoDev
    /\ app' = NoApp
    /\ UNCHANGED device

\* What depends on whether the application runs.
LooksForProcess(c) ==
    "process" \in c.need \/ c.fn \in {"isRunning", "StopPackageAndCleanup", "WhatIfStopPackage"}

\* The application ends by itself.  That commutes with every instruction that does
\* not depend on it, and need only be considered before one that does.
ProcessExits ==
    /\ "process" \in device
    /\ Busy => LooksForProcess(Head(todo))
    /\ device' = device \ {"process"}
    /\ UNCHANGED <<todo, ok, dev, app, faults, history>>
============================================================================
