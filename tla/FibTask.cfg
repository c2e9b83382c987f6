CONSTANTS
    w1 = w1
    w2 = w2
    NoTask = NoTask
    N = 6
    Versions <- MCVersions
    Workers = {w1, w2}
SPECIFICATION FairSpec
INVARIANTS ResultsRight TableRight RefCountExact NoDeadlock
PROPERTIES FibReturned
