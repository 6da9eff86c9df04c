SPECIFICATION MCSpec
CONSTANTS
    Signals = {SIGINT, SIGTERM}
    MaxSignals = 3
INVARIANTS
    WaiterTypeOK SignalsDoNotKill
    LocalsOutliveThreads
PROPERTIES
    StopReturns SignalIsHandled SignalEndsMain
CHECK_DEADLOCK FALSE
