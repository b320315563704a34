SPECIFICATION Spec
CONSTANTS
    Cores = 4
    Constructs = {"critical", "barrier", "reduce", "reduce_nowait", "single", "nested"}
    MaxLength = 2
    MaxPushed = 2
    MaxSections = 2
    MaxCalls = 2
    Mod = 256
    Below = 3
    Above = 4
    MaxIncr = 3
    MaxChunk = 3
    MaxLoopTeam = 4
    None = None
    Pthreads = {p1, p2, p3}
    Mutexes = {m1}
    MaxCreates = 3
    MaxBatch = 2
    Absent = Absent
INVARIANTS
    SectionsExclude
    MasterLeavesLast
    LoopIsShared
    
    JoinGetsItsResult
PROPERTY
    
    JoinEnds
CHECK_DEADLOCK FALSE
