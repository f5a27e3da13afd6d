\* Calls on files while the mounts stay and descriptors are private.
SPECIFICATION Spec
CONSTANTS
    Thread = {t1, t2, t3}
    Mount = {m1}
    Nobody = Nobody
    Ops <- FileOps
    SharedFds = FALSE
    MaxCalls = 2
    MaxFd = 4
SYMMETRY Symmetry
INVARIANTS
    TypeOK
    NoCrash
    MarkedFileIsOpen
    UnlinkedFileIsClosed
CHECK_DEADLOCK FALSE
