SPECIFICATION Spec
CONSTANTS
    Faaslets = {f1, f2, f3}
    MaxVersion = 2
    FlushClearsState = TRUE
    None = None
    Threads = {t1, t2}
    SerialUnmap = TRUE
    Keys = {k1, k2}
    PageBytes = 2
    Word = 32
    MaxPages = 6
    MaxLength = 3
    PoolSize = 1
    Nil = Nil
    Clones = {c1}
    Paths = {A, B}
    Names = {"f", "g"}
    Libraries <- MCLibraries
    Mains <- MCMains
    MaxTable = 3
    MaxUnits = 3
    Unread = Unread
    Interfaces = {i1, i2, i3}
    Args = {a, b}
    MaxEnclaves = 1
    SetupOutcomes = {"ready", "noFile", "notCreated", "noWamr", "notAttested"}
    LoadOutcomes = {"loaded", "rejected", "missing"}
    NoArgs = NoArgs
INVARIANTS
    RunsUpdatedFunction
    RegionsApart
    SegmentMappedOnce
    HandleMeansLoaded
    PointersAgree
    EnclaveAnswersOwnCall
PROPERTIES
    FunctionPointersStay
CHECK_DEADLOCK FALSE
