SPECIFICATION FairSpec
CONSTANTS
    Caller = {c1, c2}
    Nobody = Nobody
    Flow = {f1, f2}
    NoFlow = NoFlow
    Cooldown = 2
    TTL = 2
    MaxOutages = 1
    MaxHangUps = 1
    MaxRestarts = 1
INVARIANTS
    TypeOK
    SignedInOnce
    KeptInTime
PROPERTIES
    Recovers
