CONSTANTS
    Calls = {c1, c2, c3, c4}
    strange = c4
    home = home
    abroad = abroad
    Loops = {home, abroad}
    LoopOf <- MCLoopOf
    NoLoop = noloop
    Threads = threads
    FailureThreshold = 2
    OpenDuration = 1
    HalfOpenMax = 2
    RecoveryThreshold = 2
    Outage = 2
    MaxTick = 3
SPECIFICATION BreakerFairSpec
INVARIANTS
    SlotsCounted
PROPERTIES
    LateEndsHarmless
    Recovers
