CONSTANTS
    m1 = m1
    m2 = m2
    s1 = s1
    s2 = s2
    u1 = u1
    u2 = u2
    x1 = x1
    Null = Null
    Mutexes = {m1, m2}
    SharedLocks = {s1, s2}
    UpgradeLocks = {u1, u2}
    UniqueLocks = {x1}
    MaxLoose = 1
SYMMETRY MutexSymmetry
SPECIFICATION Spec
INVARIANT OwnershipExact
