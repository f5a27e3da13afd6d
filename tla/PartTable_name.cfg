\* The name of a partition and the partition it leads to.
SPECIFICATION Spec
CONSTANTS
    SectorCount = 10
    Word = 8
    Size = 16
    Foreign <- MCForeign
    Conf <- MCConf
    ConfArray <- MCConfArray
INVARIANTS
    NameFindsItsPartition
