CONSTANTS
    Instances = {i1, i2}
    MaxInputs = 2
    MaxFaults = 1
    Processes = {p1, p2}
    Channels = {"webhook", "telegram", "teams", "sms", "slack", "socket", "messenger", "email"}
    MaxMoves = 1
    MaxMisses = 2
SPECIFICATION MCSpec
INVARIANTS
    TypeOK
    SingleManager
    OneTurn
PROPERTIES
    ActiveIsServed
CHECK_DEADLOCK FALSE
