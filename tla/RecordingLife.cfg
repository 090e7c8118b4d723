CONSTANTS
    c1 = c1
    c2 = c2
    ios = ios
    Calls <- MCCalls
    Recs <- MCRecs
    IosRecs <- MCRecs
    PhysicalRecs <- MCRecs
    MaxLines = 2
SPECIFICATION Spec
SYMMETRY CallSymmetry
INVARIANTS TypeOK StrayShellsExplained StepsOnceInOrder
PROPERTY NeverRunsAgain
CHECK_DEADLOCK FALSE
CONSTRAINT ShortLogs
