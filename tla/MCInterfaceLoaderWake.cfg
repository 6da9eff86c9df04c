SPECIFICATION Spec
CONSTANTS
    Users = {u1}
    MaxChanges = 1
INVARIANT
    WakeHitsOpenFd
