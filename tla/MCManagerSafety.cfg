SPECIFICATION ScopeSpec
CONSTANTS
    Nics = {eth0, eth1}
    First = eth0
    Callers = {c1}
    MaxAttachers = 1
    kMaxRetryCount = 1
    MaxTime = 3
INVARIANTS
    TypeOK
    NoLostUpdate
    UpdateIsImmediate
    Converged
    RestartPending
PROPERTY
    GivesUpLast
CHECK_DEADLOCK FALSE
