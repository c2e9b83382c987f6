CONSTANTS
    c1 = c1
    c2 = c2
    c3 = c3
    p1 = p1
    p2 = p2
    p3 = p3
    Nobody = Nobody
    Consumers = {c1, c2, c3}
    Producers = {p1, p2, p3}
SPECIFICATION FairSpec
INVARIANTS NoLostWakeup NothingProcessedEarly
PROPERTIES AllServed
