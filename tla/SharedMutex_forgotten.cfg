CONSTANTS
    a = a
    b = b
    c = c
    d = d
    Threads <- MCThreads3
    NReaders = 3
    UntilX <- MCOne
    UntilS <- MCNobody
SPECIFICATION FairSpec
PROPERTY ReaderAdmitted
