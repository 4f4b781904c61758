CONSTANTS
    Tabs = {t1, t2}
    Sids = {s1}
    Sessions = {k1, k2}
    Answers = {a1}
    Required = FALSE
    None = None
    AllowExpiry = FALSE
    MaxFaults = 1
SPECIFICATION Spec
SYMMETRY Symmetry
INVARIANTS
    AcceptedIsFired
CHECK_DEADLOCK FALSE
