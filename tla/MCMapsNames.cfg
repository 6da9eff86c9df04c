SPECIFICATION MapsSpec
CONSTANTS
    h1 = h1
    h2 = h2
    h3 = h3
    h4 = h4
    h5 = h5
    h6 = h6
    h7 = h7
    Handles = {h1, h2, h3, h4, h5, h6, h7}
    Starters = {h1, h4}
    Process <- MCProcess
    Request <- MCRequest
    Paths = {p1}
    MaxMaps = 2
    MaxFds = 3
    MaxPrograms = 1
    Prog = Prog
    Name = "over_15_characters"
    KernelName <- MCKernelName
    ObjectNames = {"fits", "over_15_characters"}
    None = None
    Users = {u1, u2}
    Keys = {k1, k2, k3}
    MaxEntries = 2
INVARIANT ReadyMapsLoad
CHECK_DEADLOCK FALSE
