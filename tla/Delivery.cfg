SPECIFICATION Spec
CONSTANTS
    april = april
    july = july
    Docs <- MCDocs
    Facts <- MCFacts
    Marks <- MCMarks
    Prints <- MCPrints
    Rivals <- MCRivals
    Junk = Junk
    Part = Part
    Names = {n1, n2}
    MaxPresses = 2
    MaxFaults = 2
SYMMETRY MCSymmetry
INVARIANTS
    TypeOK
    RightOrNotTold
PROPERTIES
    OwnNotRefused
    FolderTellsWhose
    StagedNow
