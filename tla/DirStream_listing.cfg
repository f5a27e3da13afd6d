SPECIFICATION CarefulSpec
CONSTANTS
    a = a
    b = b
    c = c
    long = long
    Names <- MCNames
    Size <- MCSize
    Units = 9
    Streams = {s1}
    Fails = FALSE
SYMMETRY Alike
INVARIANTS
    TypeOK
PROPERTIES
    ImplementsDirListing
    ToldPlaceIsFound
CHECK_DEADLOCK FALSE
