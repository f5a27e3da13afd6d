\* Every order of calls, with device failures.
SPECIFICATION Spec
CONSTANTS
    a = a
    b = b
    c = c
    d = d
    root = root
    a2 = a2
    rel = rel
    Name = {a, b}
    Dir = {d}
    RootDir = root
    DirOf <- MCDirOf
    Inode = {i1, i2}
    NoInode = NoInode
    IOErrors = TRUE
    Spelling = {a, b, a2, rel}
    Normal <- MCNormal
    NoName = NoName
    MaxLinks = 1
    MaxFd = 5
SYMMETRY MCSymmetry
INVARIANTS
    TypeOK
    TableConsistent
PROPERTIES
    MarkedNameGoesWithLastClose
