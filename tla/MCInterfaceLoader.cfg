SPECIFICATION FairSpec
CONSTANTS
    Users = {u1}
    MaxChanges = 2
INVARIANTS
    LoaderTypeOK
    StaleIsNoticed
    RequestIsNoticed
    ChangeIsTold
    DescriptorsMatchThread
PROPERTIES
    SnapshotNeverOlder
    StopReturns
    EventuallyFresh
