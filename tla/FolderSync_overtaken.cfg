SPECIFICATION Spec
CONSTANTS
    Kind = "idle"
    UidNext = FALSE
    Batch = 2
    Content = {a, b}
    Gone = Gone
    NoLocation = NoLocation
    MaxUid = 3
    MaxValidity = 1
    MaxStops = 0
    StopAt = {}
    MaxFailures = 0
    MaxDropped = 0
SYMMETRY MCSymmetry
INVARIANT
    CheckpointCovers
