SPECIFICATION UnattendedSpec
CONSTANTS
    Users = {u1}
    MaxChanges = 3
PROPERTY
    OverrunResyncs
CHECK_DEADLOCK FALSE
