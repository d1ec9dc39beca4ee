SPECIFICATION Spec
CONSTANTS
    Plugins = {p1}
    Versions = {1, 2, 3}
    Rejected = {3}
    Slots = {1, 2}
    MaxStates = 2
    MaxFences = 2
    MaxCrashes = 1
    MaxFaults = 1
    MaxReopens = 0
    MaxLate = 0
    MaxStops = 0
INVARIANT FenceDownStops
CHECK_DEADLOCK FALSE
