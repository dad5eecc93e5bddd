CONSTANTS
    r1 = r1
    r2 = r2
    r3 = r3
    a1 = a1
    a2 = a2
    app = app
    Requests <- MCTwo
    Accounts <- MCAccounts
    Apps <- MCApps
    AppOf <- MCAppOf
    Kinds <- MCAllKinds
SPECIFICATION Spec
INVARIANTS
    ImportAlone
