CONSTANTS
    k1 = k1
    k2 = k2
    x = x
    other = other
    kidA = kidA
    kidB = kidB
    Keys = {k1, k2, x}
    Kids = {kidA, kidB}
    KidOf <- MCKidOf
    AlgorithmOf <- MCAlgorithmOf
    CanSign <- MCCanSign
    NoKey = nokey
    None = none
    Algorithm = "RS256"
    ClockSkew = 1
    MaxTokenAge = 4
    DefaultTtl = 2
    MaxTtl = 2
    AddIssuedAt = TRUE
    Second = 2
    Instants = {0, 3}
    Requests <- MCRequests
    Foreign <- MCForeign
    MaxTokens = 1
    Verifiers = {v1, v2}
SPECIFICATION Spec
SYMMETRY VerifiersAlike
INVARIANTS
    CacheTransparent
    EpochsApart
    RevokedRefused
