CONSTANTS
    Tabs = {t1, t2}
    Sids = {s1, s2}
    Sessions = {k1, k2}
    Answers = {a1, a2}
    Required = TRUE
    None = None
    AllowExpiry = TRUE
    MaxFaults = 2
SPECIFICATION Spec
SYMMETRY Symmetry
INVARIANTS
    IInv
    FiresOnce
    NoUnpaidFire
    LocksChargedAmount
PROPERTIES
    DeadIsImmutable
CHECK_DEADLOCK FALSE
