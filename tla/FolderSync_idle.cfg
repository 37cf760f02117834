SPECIFICATION FairSpec
CONSTANTS
    Kind = "idle"
    UidNext = TRUE
    Batch = 1
    Content = {a, b}
    Gone = Gone
    NoLocation = NoLocation
    MaxUid = 2
    MaxValidity = 2
    MaxStops = 0
    StopAt = {}
    MaxFailures = 1
    MaxDropped = 0
INVARIANTS
    NoStaleLocation
PROPERTIES
    RolloverHandled
    CursorMonotone
    EventuallyArchived
