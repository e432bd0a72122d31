-------------------------- MODULE AndroidApplication --------------------------
(***************************************************************************)
(* The four kinds of applications that Dive sets up on a device, starts,   *)
(* stops and cleans up (capture_service/android_application.cc), as        *)
(* scripts of adb commands.  m_app is                                      *)
(*                                                                         *)
(*    [type, gfxr, whatIf, started]                                        *)
(*                                                                         *)
(* with gfxr standing for m_gfxr_capture_settings having a value.  There   *)
(* is one package (or, for VULKAN_CLI, one executable); "process" is the   *)
(* mark of its being run.  A mark stands for the commands that put one     *)
(* thing on the device: "layers" for the gpu_debug settings, "gfxrProps"   *)
(* for the debug.gfxrecon properties, "wrap" for the property wrap.package,*)
(* "vkLib", "gfxrLib" and "rtLib" for layer libraries in the storage of    *)
(* the application, "deploy" for the deployment folder and "rtDeployed"    *)
(* for the runtime layer in it, "globalDir" for the global layer folder.   *)
(***************************************************************************)
EXTENDS AdbScript

Types == {"OPENXR", "VULKAN", "GLES", "CLI"}

NoApp == [type |-> "none", gfxr |-> FALSE, whatIf |-> FALSE, started |-> FALSE]

Application(t) == [NoApp EXCEPT !.type = t]

\* enable_gpu_debug_layers, and the three settings that follow it.
LayerSettings == <<Set("layers"), Run>>

ClearLayerSettings == Clear({"layers"})

\* DeployDeviceResource: resolve the file, create the folder, push the file.
DeployDeviceResource(folder) == <<Run, Set(folder), Run>>

CopyWithPermissions(lib) == Needing(Set(lib), {"deploy"})

\* rm -rf; CleanupFileWithPermissions.
CleanupFileWithPermissions(lib) == Clear({lib})

\* rm without -f fails when there is no such file.
RemoveExisting(lib) == Needing(Clear({lib}), {lib})

\* The permission is never taken back and nothing depends on it.
GrantAllFilesAccess == IF app.type = "CLI" THEN <<>> ELSE <<Run>>

SetFrameDelimiter == <<Needing(Set("delimiter"), {"root"}), Set("debugDelimiter")>>

ClearFrameDelimiter ==
    <<Needing(Clear({"delimiter"}), {"root"}), Clear({"debugDelimiter"})>>

CleanupPackageProperties == Ignored(<<Clear({"wrap"})>>)

----------------------------------------------------------------------------
GfxrProperties == <<Set("gfxrProps"), Run>>

CliGfxrSetup ==
    DeployDeviceResource("globalDir")
    \o <<Run, Set("vulkanLayers"), Set("captureDir")>> \o GfxrProperties

GfxrSetup ==
    IF app.type = "CLI" THEN CliGfxrSetup
    ELSE <<Call("RequestRootAccess")>> \o DeployDeviceResource("deploy")
         \o <<CopyWithPermissions("gfxrLib"), Needing(Run, {"gfxrLib"})>>
         \o LayerSettings
         \o <<Set("captureDir")>> \o GfxrProperties

RuntimeWhatIfSetup ==
    <<Call("RequestRootAccess")>> \o DeployDeviceResource("deploy")
    \o <<Set("rtDeployed"), CopyWithPermissions("rtLib")>>
    \o LayerSettings \o SetFrameDelimiter

RuntimeWhatIfCleanup ==
    <<Call("RequestRootAccess"), Run, ClearLayerSettings>>
    \o (IF app.type = "CLI" THEN <<>> ELSE <<RemoveExisting("rtLib")>>)
    \o <<RemoveExisting("rtDeployed")>> \o ClearFrameDelimiter

SetWrap == <<Set("wrap"), Run>>

VulkanPm4CaptureSetup == <<CopyWithPermissions("vkLib")>> \o LayerSettings \o SetWrap

GLESPm4CaptureSetup == <<CopyWithPermissions("vkLib")>> \o LayerSettings \o SetWrap

OpenXRPm4CaptureSetup ==
    <<Needing(Run, {"root"})>> \o DeployDeviceResource("manifest") \o SetWrap

CliPm4CaptureSetup == DeployDeviceResource("globalDir") \o <<Set("vulkanLayers")>>

\* VulkanApplication and GLESApplication have the same.
ApkPm4CaptureCleanup == <<CleanupFileWithPermissions("vkLib")>>

OpenXRPm4CaptureCleanup == <<Needing(Run, {"root"}), RemoveExisting("manifest")>>

\* The mode that Setup prepares the application for.
SetupMode(pm4) ==
    CASE app.whatIf -> RuntimeWhatIfSetup
      [] app.gfxr /\ ~app.whatIf -> GfxrSetup
      [] OTHER -> pm4

VulkanSetup == GrantAllFilesAccess \o <<Ignoring("Stop")>> \o SetupMode(VulkanPm4CaptureSetup)

GLESSetup ==
    GrantAllFilesAccess \o <<Ignoring("Stop")>>
    \o IF app.gfxr THEN <<Needing(Run, {"unimplemented"})>> ELSE GLESPm4CaptureSetup

OpenXRSetup == GrantAllFilesAccess \o SetupMode(OpenXRPm4CaptureSetup)

CliSetup == GrantAllFilesAccess \o SetupMode(CliPm4CaptureSetup)

Setup ==
    CASE app.type = "VULKAN" -> VulkanSetup
      [] app.type = "GLES" -> GLESSetup
      [] app.type = "OPENXR" -> OpenXRSetup
      [] app.type = "CLI" -> CliSetup

\* AndroidApplication::Cleanup.  The last instruction resets gfxr and whatIf.
BaseCleanup ==
    CASE app.gfxr ->
            <<Run, Clear({"gfxrProps"})>>
            \o IF app.type = "CLI" THEN <<>> ELSE <<RemoveExisting("gfxrLib")>>
      [] app.whatIf /\ ~app.gfxr -> RuntimeWhatIfCleanup
      [] OTHER -> <<>>

\* Mutant: the first setting that cannot be deleted ends the cleanup.
BaseCleanupTail_FirstErrorEnds ==
    <<ClearLayerSettings, RemoveExisting("globalDir"), Clear({"vulkanLayers"}), Note("ResetModes")>>

BaseCleanupTail ==
    Ignored(<<ClearLayerSettings, Clear({"globalDir"}), Clear({"vulkanLayers"})>>) \o <<Note("ResetModes")>>

\* Looks at the modes after the base class has reset them, and so always removes
\* the library of PM4 captures.
VulkanCleanup ==
    BaseCleanup \o BaseCleanupTail \o ApkPm4CaptureCleanup \o CleanupPackageProperties

GLESCleanup ==
    (IF app.gfxr THEN <<>> ELSE ApkPm4CaptureCleanup)
    \o BaseCleanup \o BaseCleanupTail \o CleanupPackageProperties

OpenXRCleanup ==
    (CASE app.gfxr -> ClearFrameDelimiter
       [] app.whatIf /\ ~app.gfxr -> <<>>
       [] OTHER -> OpenXRPm4CaptureCleanup)
    \o BaseCleanup \o BaseCleanupTail \o CleanupPackageProperties

Cleanup ==
    CASE app.type = "VULKAN" -> VulkanCleanup
      [] app.type = "GLES" -> GLESCleanup
      [] app.type = "OPENXR" -> OpenXRCleanup
      [] app.type = "CLI" -> BaseCleanup \o BaseCleanupTail
      [] app.type = "none" -> <<>>

ApkStart == <<Run, Set("process"), [Adb("isRunning") EXCEPT !.must = FALSE]>>

\* A background process that WaitForProcessToStart looks for.
CliStart == <<Set("process"), Needing(Adb("started"), {"process"})>>

Start == IF app.type = "CLI" THEN CliStart ELSE ApkStart

\* kill -9 needs the process; am force-stop does not.
Stop ==
    CASE app.type = "CLI" -> <<[RemoveExisting("process") EXCEPT !.fn = "stopped"]>>
      [] app.type = "none" -> <<>>
      [] OTHER -> <<[Clear({"process"}) EXCEPT !.fn = "stopped"]>>

\* The constructors.  ParsePackage leaves nothing behind, and its error is dropped.
Construct == <<Ignoring("Cleanup")>>

\* The destructors.
Destroy ==
    IF app.type = "none" THEN <<>>
    ELSE (IF app.started THEN <<Ignoring("Stop")>> ELSE <<>>)
         \o <<Ignoring("Cleanup"), Note("DropApp")>>
============================================================================
