SPECIFICATION Spec
CONSTANTS
    a = a
    b = b
    c = c
    long = long
    Names <- MCNames
    Size <- MCSize
    Units = 9
    Streams = {s1}
    Fails = TRUE
INVARIANTS
    EndIsTheEnd
CHECK_DEADLOCK FALSE
