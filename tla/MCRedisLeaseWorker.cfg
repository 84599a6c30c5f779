CONSTANTS
    Attempts = {a1, a2}
    UserThreads = {t1}
    Shared = {}
    SharedHandles = {}
    UsersOf <- MCUsersOf
    Worker = worker
    Nobody = nobody
    Foreign = foreign
    LeaseTime = 2
    MinLease = 1
    WaitTime = 0
    RenewTimes = {2}
    Calls = {"renew", "is_held", "enter", "release"}
    AutoRenew = TRUE
    MaxFence = 2
    Issued = {0}
    Faults = {}
SPECIFICATION Spec
SYMMETRY Symmetry
INVARIANTS
    MinimumLeaseKept
    ReleasedSoonFree
    ReleaseAfterRenewal
PROPERTIES
    OnlyOwnerEndsLease
