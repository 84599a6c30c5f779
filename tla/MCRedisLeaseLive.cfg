CONSTANTS
    Attempts = {a1}
    UserThreads = {t1, t2}
    Shared = {t1, t2}
    SharedHandles = {a1}
    UsersOf <- MCUsersOf
    Worker = worker
    Nobody = nobody
    Foreign = foreign
    LeaseTime = 1
    MinLease = 1
    WaitTime = 0
    RenewTimes = {1}
    Calls = {"renew", "enter", "release"}
    AutoRenew = TRUE
    MaxFence = 2
    Issued = {0, 2}
    Faults = {"crash"}
SPECIFICATION FairSpec
INVARIANTS
    EnteredIsAttended
PROPERTIES
    EndedStaysEnded
    CallsReturn
