SPECIFICATION Spec
CONSTANTS
    MaxEvents = 4
    MaxClock = 3
    MaxDrops = 2
    MaxEarly = 1
    BufferMax = 2
    BufferAge = 3
INVARIANT NothingVanishes
CHECK_DEADLOCK FALSE
