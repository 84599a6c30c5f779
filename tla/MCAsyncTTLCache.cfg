CONSTANTS
    k1 = k1
    k2 = k2
    Keys = {k1, k2}
    MaxSize = 1
    Tasks = {t1, t2}
    FlightIds = {1, 2}
    None = none
    MaxInflight = 2
    TTLs = {1}
    MaxTick = 0
    MaxVersion = 1
    MaxEpoch = 1
    Nested <- OneWay
SPECIFICATION FairSpec
INVARIANTS
    AbandonedWhenAlone
    JoinsFreshLoad
PROPERTIES
    LateLoadsPublishNothing
    WaitersReturn
