SPECIFICATION Spec
CONSTANTS
    MapPages = 4
    Threads = {t1}
    Ranges = {r1}
    MaxSlot = 1
    None = None
INVARIANT NoPermissionBeyondMemory
