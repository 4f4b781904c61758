CONSTANTS
    Loop = loop
    Handlers = {h1}
    Configs = {c1, c2}
    Unparsable = {}
    Undialable = {}
    Subs = {s1, s2, s3}
    None = None
    InitRow = "live"
    MaxSaves = 2
    AllowDelete = FALSE
    AllowDenial = FALSE
    MaxFaults = 0
SPECIFICATION Spec
INVARIANTS
    OneClient
CHECK_DEADLOCK FALSE
