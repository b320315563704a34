SPECIFICATION StorageSpec
CONSTANTS
    Hosts = {h1, h2}
    Slots = {s1, s2}
    Values = {v1, v2}
    Workloads = {{"read", "create", "write", "unlink", "upload"}, {"read", "upload", "flush"}, {"python", "upload"}}
    SingleWriter = TRUE
    Quiesced = TRUE
    NoFile = NoFile
    Empty = Empty
    NoThread = NoThread
    Versions = {w1, w2}
    NTargets = 2
    Requests = {r1}
    SharedDisk = TRUE
    NoVersion = NoVersion
    Callers = {t1, t2}
    MaxPools = 3
    MaxSize = 2
    NoObject = NoObject
INVARIANTS
    ReadsAreCurrent
    
    FlushedIsCurrent
    
    
SYMMETRY Symmetry
