SPECIFICATION FairSpec
CONSTANTS
    Nodes <- MCNodes
    Root = "root"
    Parent <- MCParent
    Dirs <- MCDirs
    Opened = {"f", "g"}
    Fails = TRUE
    Changes = 3
INVARIANTS
    TypeOK
    StackIsAPath
    WalkIsComplete
    EraseIsComplete
PROPERTIES
    VisitedOnce
    RemoveAllEnds
CHECK_DEADLOCK FALSE
