SPECIFICATION AttacherSpec
CONSTANTS
    Nics = {eth0, eth1}
    Callers = {c1, c2, c3}
    MaxAttachers = 1
INVARIANTS
    SnapshotCurrent
PROPERTY ImplementsSource
