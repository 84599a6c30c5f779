CONSTANTS
    k1 = k1
    k2 = k2
    Keys = {k1, k2}
    MaxSize = 1
    Threads = {t1, t2, t3}
    None = none
    MaxInflight = 2
    TTLs = {1}
    MaxTick = 2
    MaxVersion = 1
    MaxEpoch = 1
    Nested <- OneWay
SPECIFICATION FairSpec
INVARIANTS
    Bounded
    NoVersionLeak
    NoExpiredEntry
    SingleFlight
    NoCircularWait
PROPERTIES
    StaleLoadsPublishNothing
    WaitersReturn
