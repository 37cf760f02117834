SPECIFICATION Spec
CONSTANTS
    Page = {p, q}
    Sub = Sub
    Handle = {1, 2, 3}
    None = None
    Live = {"Error"}
    MaxRequests = 2
    MaxFailures = 0
    MaxStops = 0
SYMMETRY MCSymmetry
PROPERTY
    BackstopStopsOnlyDisabled
