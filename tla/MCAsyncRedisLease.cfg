CONSTANTS
    Attempts = {a1, a2}
    UserThreads = {t1, t2, cleanup}
    Shared = {t1, t2}
    SharedHandles = {a1}
    Scoped = t1
    CallsBy <- MCCallsBy
    UsersOf <- MCUsersOf
    Worker = worker
    Cleanup = cleanup
    Nobody = nobody
    Foreign = foreign
    LeaseTime = 1
    MinLease = 1
    WaitTime = 1
    RenewTimes = {1}
    Calls = {"renew", "is_held", "enter", "release"}
    AutoRenew = TRUE
    MaxFence = 2
    Issued = {0}
    Faults = {}
SPECIFICATION AsyncSpec
INVARIANTS
    CleanupNotDetached
    ResultMeansReleased
    LostForGood
    ReleaseAfterRenewTask
