SPECIFICATION FairSpec
CONSTANTS
    Nics = {eth0}
    Callers = {c1}
    MaxAttachers = 0
    kMaxRetryCount = 0
    MaxTime = 1
PROPERTY ShutdownCompletes
CHECK_DEADLOCK FALSE
