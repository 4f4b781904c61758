CONSTANTS
    Instances = {i1, i2}
    NoOwner = NoOwner
    LeaseDuration = 1
    Items = {1, 2, 3}
    Old = {1}
    Changing = {1}
    MaxStamp = 3
    Limit = 2
    Polled = {"s3", "drive", "rds", "mail", "alarm", "metric", "health", "git",
              "dbrow", "dbrowtime", "salesforce", "logs", "gmail", "agentmail", "linkedin"}
    SlowPolls = {"dbrow", "dbrowtime", "logs"}
    MaxFaults = 1
SPECIFICATION Spec
INVARIANTS
    TypeOK
    ExistingStaysSilent
    FiredOnce
    NothingSkipped
    DeletedIsGone
CHECK_DEADLOCK FALSE
