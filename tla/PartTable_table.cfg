\* Any table, any order of calls.
SPECIFICATION Spec
CONSTANTS
    SectorCount = 10
    Word = 8
    Size = 16
    Foreign <- MCForeign
    Conf <- MCConf
    ConfArray <- MCConfArray
INVARIANTS
    TypeOK
    NumbersAreUnique
    DenseTableResolves
PROPERTIES
    WrittenIsListed
