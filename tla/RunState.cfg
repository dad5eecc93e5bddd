SPECIFICATION Spec
CONSTANTS
    k1 = k1
    k2 = k2
    k3 = k3
    Keys <- MCKeys
    NoFile = NoFile
    NoRecords = NoRecords
    MaxFaults = 3
    MaxBreaks = 2
    MaxBackups = 4
SYMMETRY MCSymmetry
INVARIANTS
    TypeOK
    KeptSomewhere
    EndsWrittenOrSaid
PROPERTY LoadKnows
