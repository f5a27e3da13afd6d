SPECIFICATION Spec
CONSTANTS
    Nodes <- MCNodes
    Root = "root"
    Parent <- MCParent
    Dirs <- MCDirs
    Opened = {"f"}
    Fails = FALSE
    Changes = 0
INVARIANTS
    ErasedIsGone
CHECK_DEADLOCK FALSE
