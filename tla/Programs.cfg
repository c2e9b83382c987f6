CONSTANTS
    Texts <- MCTexts
    DIM = 2
    CellBits = 2
    Values = {0, 1}
    Zero = 0
    None = None
    Files <- MCFiles
    Limit = 20
    IntMax = 511
    Mantissa = 6
    MaxExponent = 12
    Space = Space
    Unwritten = Unwritten
    NoBuffer = NoBuffer
    Garbage = Garbage
    nx = 4
    ny = 2
    dimx = 3
    InitialData <- MCInitialData
    WORK_SIZE = 5
    BLOCK_SIZE = 2
    t1 = t1
    t2 = t2
    Threads = {t1, t2}
    n = 2
    Factors <- MCFactors
    MaxInt = 1
    Unset = Unset
    Problems <- MCProblems
SPECIFICATION Spec
INVARIANTS
    TreesRight AcceptsExactly TraverseExact GeneratedRight
    DeviceEqualsHost ReciprocalsAgree ProductRight SolutionShortest NothingMissed
PROPERTIES MakesHeadway
