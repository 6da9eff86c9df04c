SPECIFICATION SidesSpec
CONSTANTS
    MaxIndex = 3
    Names = {"eth0", "eth3"}
    FirstIndexes <- MCFirstIndexes
    LastIndex = 2
    Addresses = {"192.0.2.1", "192.0.2.2"}
    MaxEntries = 4
    MaxRenames = 2
    kNoAddress = "N/A"
    Interfaces = {1, 2, 3}
    Lengths = {0, 13, 14, 17, 18, 22, 26, 33, 34, 38, 42, 46, 49, 50}
    HeaderLengths = {4, 5, 6}
    MIRRORING_MAX_INSTANCES = 2
    Starters = {"p", "q"}
    MaxStarts = 3
    MaxKeys = 2
INVARIANTS
    CallAsWanted SettledCallSucceeds
    OwnData ListMatches
    EventsAreIPv4 CopiesStored
    MirrorValueSound EveryStartCounts
PROPERTY DetachOnlyOurs
CHECK_DEADLOCK FALSE
