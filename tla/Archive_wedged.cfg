SPECIFICATION FairSpec
CONSTANTS
    Content = {1, 2}
    Folder = {f, g}
    Batch = 2
    MaxIngests = 2
    MaxFaults = 1
    FaultKinds = {"torn"}
    MaxRestarts = 1
PROPERTY
    NeverWedged
CHECK_DEADLOCK FALSE
