SPECIFICATION Spec
CONSTANTS
    MapPages = 4
    Threads = {t1, t2, t3}
    Ranges = {r1, r2}
    MaxSlot = 2
    None = None
INVARIANTS
    OwnedPagesAccessible
    
    HandlerFindsOwner
PROPERTY
    UpdateEnds
