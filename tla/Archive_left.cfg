SPECIFICATION Spec
CONSTANTS
    Content = {1}
    Folder = {f}
    Batch = 1
    MaxIngests = 1
    MaxFaults = 0
    FaultKinds = {}
    MaxRestarts = 0
INVARIANT
    NothingIsLeft
CHECK_DEADLOCK FALSE
