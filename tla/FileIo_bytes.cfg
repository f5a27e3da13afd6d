SPECIFICATION CarefulSpec
CONSTANTS
    Fds = {f1, f2}
    Data = {x, y}
    Junk = junk
    Block = 2
    Room = 2
    Chunk = 2
    Lengths = {1, 3}
    Device = "fails"
SYMMETRY Interchangeable
VIEW StateView
INVARIANTS
    TypeOK
    PositionInFile
PROPERTIES
    ImplementsFileBytes
CHECK_DEADLOCK FALSE
