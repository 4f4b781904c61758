CONSTANTS
    Instances = {i1, i2}
    NoOwner = NoOwner
    LeaseDuration = 1
    Period = 2
    Target = 0
    Holidays = {0}
    Overrun = TRUE
    MaxTime = 3
    MaxFaults = 1
    None = None
SPECIFICATION FairSpec
INVARIANTS
    IInv
    OnceWithinLease
    RecordedFirst
    SilentFirstSight
PROPERTIES
    DueIsNoticed
CHECK_DEADLOCK FALSE
