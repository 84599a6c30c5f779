CONSTANTS
    k1 = k1
    k2 = k2
    Keys = {k1, k2}
    MaxSize = 1
    Threads = {t1}
    None = none
    MaxInflight = 1
    TTLs = {1, 2}
    MaxTick = 3
    MaxVersion = 3
    MaxEpoch = 1
    Nested = {}
SPECIFICATION Spec
PROPERTIES
    ExpiresOnTime
