SPECIFICATION Spec
CONSTANTS
    Kind = "poll"
    UidNext = TRUE
    Batch = 2
    Content = {a}
    Gone = Gone
    NoLocation = NoLocation
    MaxUid = 2
    MaxValidity = 2
    MaxStops = 0
    StopAt = {}
    MaxFailures = 0
    MaxDropped = 0
PROPERTY
    RolloverHandled
