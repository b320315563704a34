SPECIFICATION Safety
CONSTANTS
    Calls = {c1, c2}
    Resends = 0
    MaxSlots = 1
    MaxOps = 0
    None = None
PROPERTY RefusedOnlyUnderLoad
