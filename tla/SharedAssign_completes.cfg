CONSTANTS
    a = a
    b = b
    t1 = t1
    Nobody = Nobody
    Objects = {a, b}
    Threads <- MCThreads
    Target <- MCTarget
    Source <- MCSource
SPECIFICATION FairSpec
PROPERTIES AssignCompletes
