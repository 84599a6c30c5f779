CONSTANTS
    Attempts = {a1, a2}
    UserThreads = {t1}
    Shared = {}
    SharedHandles = {}
    UsersOf <- MCUsersOf
    Worker = worker
    Nobody = nobody
    Foreign = foreign
    LeaseTime = 1
    MinLease = 0
    WaitTime = 1
    RenewTimes = {1}
    Calls = {"release"}
    AutoRenew = FALSE
    MaxFence = 2
    Issued = {0}
    Faults = {"crash", "counter", "history", "lease"}
SPECIFICATION FairSpec
INVARIANTS
    FenceIdentifiesHandle
PROPERTIES
    ImplementsFencedLock
    CrashedLeaseEnds
