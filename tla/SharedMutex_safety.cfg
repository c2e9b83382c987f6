CONSTANTS
    a = a
    b = b
    c = c
    d = d
    Threads <- MCThreads4
    NReaders = 2
    UntilX <- MCTwo
    UntilS <- MCTwo
SPECIFICATION FairSpec
INVARIANTS Exclusion StateWordExact WriterNotForgotten
PROPERTIES GateClosedToReaders ImplementsRWLock WriterServed
