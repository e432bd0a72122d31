\* Command buffers with calls, chains, draw states, bins and draw tables.
CONSTANTS
    Captures <- MCCaptures
    kTotalIbLevels = 5
    kMaxPendingIbs = 4
SPECIFICATION Spec
INVARIANTS
    ReadsCaptured
    TopologiesWellFormed
    IbStacksAgree
    RegistersByPass
    IbRangesExact
    EventRangesExact
    SharedParents
    ExecutionOrder
