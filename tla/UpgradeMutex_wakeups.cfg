CONSTANTS
    a = a
    b = b
    c = c
    d = d
    Threads <- MCThreads3
    NReaders = 3
    UntilX <- MCNobody
    UntilS <- MCOne
    UntilU <- MCOne
SPECIFICATION FairSpec
INVARIANT NoLostWakeup
PROPERTIES WriterServed
