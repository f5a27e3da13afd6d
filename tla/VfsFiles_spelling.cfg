\* A careful program that does not always spell a path the same way.
SPECIFICATION SloppySpellingSpec
CONSTANTS
    a = a
    b = b
    c = c
    d = d
    root = root
    a2 = a2
    rel = rel
    Name = {a, b, c}
    Dir = {d}
    RootDir = root
    DirOf <- MCDirOf
    Inode = {i1, i2, i3}
    NoInode = NoInode
    IOErrors = FALSE
    Spelling = {a, b, c, a2, rel}
    Normal <- MCNormal
    NoName = NoName
    MaxLinks = 3
    MaxFd = 5
PROPERTIES
    UnlinkIsDelayed
