\* All calls: mounts and unmounts that fail at every step, and a FAT partition,
\* whose mounting ends the program.
SPECIFICATION Spec
CONSTANTS
    p1 = p1
    p2 = p2
    p3 = p3
    fat = fat
    slash = slash
    sd = sd
    volume0 = volume0
    volume1 = volume1
    volume10 = volume10
    Part = {p1, p2, p3, fat}
    TypeOf <- MCTypeOf
    Root = {slash, sd, volume0}
    LabelRoot <- MCLabelRoot
    Volume <- MCOneVolume
    UserRoot = {volume0}
    RootDir = slash
    Inside <- MCInside
    Nothing = Nothing
    DevCount = 2
    MpCount = 2
    UmountFails = TRUE
VIEW CallsView
INVARIANTS
    TypeOK
    TablesAgree
    MountedOnce
    RootHasLiveSlot
PROPERTIES
    MountAllMeansAll
CHECK_DEADLOCK FALSE
