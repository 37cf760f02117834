SPECIFICATION Spec
CONSTANTS
    JobId = {1, 2}
    Worker = {w1, w2}
    NoJob = NoJob
    Priority <- MCPriority
    Delays = {0, 1}
    MaxAttempts = 2
    BackoffUnit = 1
    MaxDbErrors = 1
    MaxStops = 1
    ErrorKinds = {"transient", "fatal"}
    FaultyCalls = {"report"}
SYMMETRY MCSymmetry
INVARIANTS
    TypeOK
    OwnsItsRow
    OneHandlerPerJob
    NoLostWake
    RetryBudget
PROPERTIES
    ResolvedIsFinal
    KeepsPromise
