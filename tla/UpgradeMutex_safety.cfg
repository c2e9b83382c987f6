CONSTANTS
    a = a
    b = b
    c = c
    d = d
    Threads <- MCThreads4
    NReaders = 2
    UntilX <- MCTwo
    UntilS <- MCOne
    UntilU <- MCOne
SPECIFICATION Spec
INVARIANTS Exclusion StateWordExact WriterNotForgotten
PROPERTIES UpgradeIsExclusive ImplementsUpgradeLock
