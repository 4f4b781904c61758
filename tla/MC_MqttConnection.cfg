CONSTANTS
    Loop = loop
    Handlers = {h1}
    Configs = {c1, bad}
    Unparsable = {}
    Undialable = {bad}
    Subs = {s1, s2, s3}
    None = None
    InitRow = "absent"
    MaxSaves = 3
    AllowDelete = TRUE
    AllowDenial = TRUE
    MaxFaults = 1
SPECIFICATION Spec
INVARIANTS
    TypeOK
    SlotIsBacked
    OneClientWhileCalm
PROPERTIES
    HealthyLeftAlone
CHECK_DEADLOCK FALSE
