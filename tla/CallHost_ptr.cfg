SPECIFICATION WorkerSpec
CONSTANTS
    Faaslets = {f1}
    MaxCalls = 2
    MaxSteps = 2
    StateKeys = {"k"}
    Stored = {"none", "current"}
    NRanks = 2
    Pool = {p1, p2}
    MaxMpiCalls = 2
    MaxJobs = 2
    Byte = 4
    InPlace = 1
    Addresses = {1, 2}
    Movable = {1}
    NoCtx = NoCtx
    Unsent = Unsent
INVARIANT
    StatePointerIsMapped
CHECK_DEADLOCK FALSE
