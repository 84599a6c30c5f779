CONSTANTS
    Callers = {c1, c2, c3}
    MaxConcurrency = 1
    MaxAttempts = 2
    Pipelines <- MCPipelines
SPECIFICATION PipeFairSpec
INVARIANTS
    PermitsCounted
    NoLostWakeup
    NoPermitLeak
    StopsWhenTold
PROPERTIES NoIdlePermit
