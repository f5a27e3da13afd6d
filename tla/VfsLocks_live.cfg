\* Mounts come and go under calls that share descriptors, and every call returns.
SPECIFICATION FairSpec
CONSTANTS
    Thread = {t1, t2}
    Mount = {m1, m2}
    Nobody = Nobody
    Ops <- MountOps
    SharedFds = TRUE
    MaxCalls = 2
    MaxFd = 3
INVARIANTS
    FsExclusion
PROPERTIES
    EveryCallReturns
CHECK_DEADLOCK FALSE
