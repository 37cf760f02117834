SPECIFICATION Spec
CONSTANTS
    Kind = "idle"
    UidNext = TRUE
    Batch = 2
    Content = {a}
    Gone = Gone
    NoLocation = NoLocation
    MaxUid = 2
    MaxValidity = 2
    MaxStops = 1
    StopAt = {"drop"}
    MaxFailures = 0
    MaxDropped = 0
INVARIANT
    NoStaleLocation
