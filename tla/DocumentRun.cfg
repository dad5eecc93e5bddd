CONSTANTS
    d1 = d1
    d2 = d2
    n1 = n1
    Docs <- MCDocs
    Names <- MCNames
    NameOf <- MCNameOf
    MaxCopies = 6
    MaxFaults = 1
    MaxAgains = 1
    MaxEdits = 2
    NoDoc = NoDoc
    NoPath = NoPath
    NoFile = NoFile
SYMMETRY Symmetry
SPECIFICATION Spec
INVARIANTS
    TypeOK
    VouchedCopy
PROPERTIES
    FilesSafe
    KeptStaysSaved
    NeverTwice
    KeepsArchive
