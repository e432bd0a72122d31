CONSTANTS
    MaxFaults = 1
    MaxRounds = 1
    Ports <- MCPorts
    Replays <- MCReplays
    Originals <- MCOriginals
    Commands = {"pm4_capture", "gfxr_capture", "gfxr_replay", "cleanup", "trace_dialog", "what_if_dialog", "analyze_dialog"}
    Shown = {"OPENXR"}
SPECIFICATION Spec
INVARIANTS
    DeviceLeftClean
    ApplicationLeftClean
    ReplayUndone
