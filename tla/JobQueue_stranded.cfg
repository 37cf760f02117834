SPECIFICATION FairSpec
CONSTANTS
    JobId = {1, 2}
    Worker = {w1}
    NoJob = NoJob
    Priority <- MCPriority
    Delays = {0}
    MaxAttempts = 2
    BackoffUnit = 1
    MaxDbErrors = 1
    MaxStops = 0
    ErrorKinds = {"transient"}
    FaultyCalls = {"report"}
PROPERTY
    RecoversWithoutRestart
