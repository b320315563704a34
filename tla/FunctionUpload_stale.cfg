SPECIFICATION UploadSpec
CONSTANTS
    Versions = {v1, v2}
    NTargets = 2
    Requests = {r1}
    SharedDisk = TRUE
    NoVersion = NoVersion
INVARIANTS
    UpdateTakesEffect
