SPECIFICATION Spec
CONSTANTS
    Kind = "poll"
    UidNext = TRUE
    Batch = 2
    Content = {a, b}
    Gone = Gone
    NoLocation = NoLocation
    MaxUid = 2
    MaxValidity = 2
    MaxStops = 1
    StopAt = {"connect", "select", "reset", "drop", "scan", "window", "parked"}
    MaxFailures = 1
    MaxDropped = 1
SYMMETRY MCSymmetry
INVARIANTS
    TypeOK
    CheckpointCovers
