CONSTANTS
    Instances = {i1, i2}
    NoOwner = NoOwner
    LeaseDuration = 5
    SafetyMargin = 3
    SweepGap = 2
    ResolveDelay = 1
    MaxFaults = 2
    Workers = {w1, w2}
    QueueSize = 2
    MaxMessages = 4
    MaxLosses = 1
    MaxRestarts = 1
    Idle = Idle
SPECIFICATION MCSpec
INVARIANTS
    IInv
    SingleSubscriber
    HeldUnderLease
    DispatchTypeOK
    NothingDropped
    HandledOnce
PROPERTIES
    HandoverOrdered
    ImplementsExclusive
    TakenOver
    EveryMessageSettles
CHECK_DEADLOCK FALSE
