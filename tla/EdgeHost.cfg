SPECIFICATION FairSpec
CONSTANTS
    Plugins = {p1}
    Versions = {1, 2, 3}
    Rejected = {3}
    Slots = {1, 2}
    MaxStates = 2
    MaxFences = 2
    MaxCrashes = 1
    MaxFaults = 1
    MaxReopens = 1
    MaxLate = 0
    MaxStops = 1
INVARIANTS TypeOK NoStrayProcess DeniedIsStopped
PROPERTY Settles
CHECK_DEADLOCK FALSE
