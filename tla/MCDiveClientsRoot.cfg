CONSTANTS
    MaxFaults = 0
    MaxRounds = 1
    Ports <- MCPorts
    Replays <- MCReplays
    Originals <- MCOriginals
    Commands = {"gfxr_capture"}
    Shown = {"VULKAN", "OPENXR"}
SPECIFICATION Spec
INVARIANT OriginalStateRestored
