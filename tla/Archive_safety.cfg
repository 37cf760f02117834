SPECIFICATION FairSpec
CONSTANTS
    Content = {1, 2}
    Folder = {f, g}
    Batch = 2
    MaxIngests = 2
    MaxFaults = 1
    FaultKinds = {"io", "job", "cleanup", "rebuild", "lost", "torn"}
    MaxRestarts = 2
INVARIANTS
    TypeOK
    ReferencesHaveBlobs
    OneDocument
    WatermarkHolds
    DeletionIsComplete
PROPERTY
    EventuallySearchable
CHECK_DEADLOCK FALSE
