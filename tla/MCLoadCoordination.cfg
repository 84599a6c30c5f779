CONSTANTS
    p1 = p1
    p2 = p2
    f1 = f1
    Processes = {p1, p2}
    AsyncProcs = {p2}
    Flights = {f1, f2}
    ProcessOf <- MCProcessOf
    Closers = {c1}
    LeaseTtl = 1
    ResultTtl = 1
    MaxAttempts = 2
    MaxPolls = 2
    Writer <- MCWriter
    Readers <- MCReaders
    Limit <- MCLimit
    Foreign = TRUE
    NoToken = noToken
SPECIFICATION FairSpec
INVARIANTS
    MarkerHasOwner
    CompletionHasResult
    ClosedIsDrained
PROPERTIES EveryoneReturns
