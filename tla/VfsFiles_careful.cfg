\* The calls of a careful program, with device failures.
SPECIFICATION CarefulSpec
CONSTANTS
    a = a
    b = b
    c = c
    d = d
    root = root
    a2 = a2
    rel = rel
    Name = {a, b, c}
    Dir = {d}
    RootDir = root
    DirOf <- MCDirOf
    Inode = {i1, i2}
    NoInode = NoInode
    IOErrors = TRUE
    Spelling = {a, b, c, a2, rel}
    Normal <- MCNormal
    NoName = NoName
    MaxLinks = 3
    MaxFd = 4
SYMMETRY MCSymmetry
INVARIANTS
    HandleNamesItsFile
    LinkCounts
PROPERTIES
    ImplementsDelayedUnlink
