CONSTANTS
    Savers = {s1, s2}
    MaxConfig = 2
    MaxSaves = 3
    MaxFaults = 1
    Hosts = {"calendly"}
    Overlapping = {}
SPECIFICATION Spec
INVARIANTS
    RetriedCleanly
SYMMETRY Symmetry
CHECK_DEADLOCK FALSE
