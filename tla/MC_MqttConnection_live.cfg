CONSTANTS
    Loop = loop
    Handlers = {h1}
    Configs = {c1, c2}
    Unparsable = {}
    Undialable = {c2}
    Subs = {s1, s2, s3, s4, s5}
    None = None
    InitRow = "live"
    MaxSaves = 1
    AllowDelete = TRUE
    AllowDenial = FALSE
    MaxFaults = 0
SPECIFICATION FairSpec
PROPERTIES
    RejectedIsRetried
    EditTakesEffect
    DeletedIsReleased
CHECK_DEADLOCK FALSE
