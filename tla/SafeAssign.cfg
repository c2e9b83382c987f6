CONSTANTS
    a = a
    b = b
    c = c
    t1 = t1
    t2 = t2
    t3 = t3
    t4 = t4
    t5 = t5
    Nobody = Nobody
    Objects = {a, b, c}
    Threads <- MCThreads
    Target <- MCTarget
    Source <- MCSource
    Size = 2
    Rounds = 1
SPECIFICATION FairSpec
INVARIANTS WholeVectors NoDeadlock
PROPERTIES ImplementsAtomicAssign MutexReturned
