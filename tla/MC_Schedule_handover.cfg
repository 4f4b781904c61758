CONSTANTS
    Instances = {i1, i2}
    NoOwner = NoOwner
    LeaseDuration = 1
    Period = 3
    Target = 1
    Holidays = {1}
    Overrun = FALSE
    MaxTime = 8
    MaxFaults = 1
    None = None
SPECIFICATION Spec
INVARIANT OncePerWindow
CHECK_DEADLOCK FALSE
