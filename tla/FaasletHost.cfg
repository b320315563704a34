SPECIFICATION HostSpec
CONSTANTS
    NetFaaslets = {n1, n2}
    PoolThreads = {t1, t2}
    MaxNetNs = 4
    Threads = {t1}
    Rights = {write, poll}
    ReadRights = {}
    WriteRights = {write}
    StdRights = {write, poll}
    DirectoryRights = {}
    InheritingDirectoryRights = {write}
    MaxFd = 6
    DirFds = {f1, f2}
    OpenedFd = f1
    MaxEntries = 3
    NameSizes = {1, 3}
    DirentSize = 2
    BufferSizes = {5, 8}
    FilePaths <- MCFilePaths
    MaxDescs = 6
    MaxFiles = 3
    Fns = {"f1", "f2", "f3"}
    HostOf <- MCHostOf
    OwnerOf <- MCOwnerOf
    MaxUpdates = 1
    AtStart = 1
INVARIANTS
    OwnNamespace
    RightsWithinRoot
    HostFdsApart
    ListingIsExact
    CreatedIsFound
    LockedUpdatesAreKept
    PushesReachGlobal
CHECK_DEADLOCK FALSE
