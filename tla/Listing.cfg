CONSTANTS
    i1 = i1
    i2 = i2
    Items <- MCItems
    Parts <- MCParts
    MaxFaults = 3
SPECIFICATION FairSpec
INVARIANTS
    TypeOK
    WordKept
PROPERTIES
    CleanMeansRead
    EventuallyClean
