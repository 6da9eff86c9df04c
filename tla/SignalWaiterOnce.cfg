SPECIFICATION Spec
CONSTANTS
    Signals = {SIGINT, SIGTERM}
    MaxSignals = 2
INVARIANT
    HandlerAtMostOnce
CHECK_DEADLOCK FALSE
