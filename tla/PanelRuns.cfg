CONSTANTS
    r1 = r1
    r2 = r2
    r3 = r3
    a1 = a1
    a2 = a2
    app = app
    Requests <- MCThree
    Accounts <- MCAccounts
    Apps <- MCApps
    AppOf <- MCAppOf
    Kinds <- MCStays
SYMMETRY MCSymmetry
SPECIFICATION Spec
INVARIANTS
    TypeOK
    ImportAlone
    FolderStays
