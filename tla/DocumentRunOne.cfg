CONSTANTS
    d1 = d1
    d2 = d2
    n1 = n1
    Docs <- MCOne
    Names <- MCNames
    NameOf <- MCNameOfOne
    MaxCopies = 5
    MaxFaults = 2
    MaxAgains = 1
    MaxEdits = 2
    NoDoc = NoDoc
    NoPath = NoPath
    NoFile = NoFile
SPECIFICATION FairSpec
PROPERTIES
    EventuallySaved
