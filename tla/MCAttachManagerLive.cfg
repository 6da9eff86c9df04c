SPECIFICATION AllOrNoneFairSpec
CONSTANTS
    Nics = {eth0}
    Callers = {c1}
    MaxAttachers = 1
    kMaxRetryCount = 0
    MaxTime = 2
PROPERTIES
    EventuallyReconciled
    BusyShutdownCompletes
CHECK_DEADLOCK FALSE
