SPECIFICATION FairSpec
CONSTANTS
    Page = {p, q}
    Sub = Sub
    Handle = {1, 2, 3}
    None = None
    Live = {"Error"}
    MaxRequests = 2
    MaxFailures = 1
    MaxStops = 1
INVARIANTS
    TypeOK
    NoLeak
    ShutdownStopsAll
PROPERTIES
    DisabledStops
    StatusConverges
