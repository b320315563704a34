SPECIFICATION Spec
CONSTANTS
    Calls = {c1}
    Resends = 1
    MaxSlots = 1
    MaxOps = 2
    None = None
INVARIANTS
    SlotsBoundExecutors
    OkOnlyAfterRemoteRun
    DeltaBuiltOnCallMemory
    ResponseMatchesRequest
PROPERTIES
    ImplementsNdpCall
