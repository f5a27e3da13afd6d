\* The mount point a path leads to.
SPECIFICATION Spec
CONSTANTS
    p1 = p1
    p2 = p2
    p3 = p3
    fat = fat
    slash = slash
    sd = sd
    volume0 = volume0
    volume1 = volume1
    volume10 = volume10
    Part = {p1, p2}
    TypeOf <- MCTypeOf
    Root = {slash, sd, volume0, volume1, volume10}
    LabelRoot <- MCLabelRoot
    Volume <- MCVolume
    UserRoot = {volume1, volume10}
    RootDir = slash
    Inside <- MCInside
    Nothing = Nothing
    DevCount = 4
    MpCount = 4
    UmountFails = FALSE
INVARIANTS
    PathFindsItsMount
