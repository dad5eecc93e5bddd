SPECIFICATION Spec
CONSTANTS
    a = a
    b = b
    c = c
    x = x
    A = A
    B = B
    C = C
    F = F
    t1 = t1
    t2 = t2
    Nowhere = Nowhere
    Nobody = Nobody
    Other = Other
    Docs <- MCDocs
    Strangers <- MCStrangers
    Names <- MCNames
    Temps <- MCTemps
    Home <- MCHome
    MaxFaults = 4
INVARIANTS
    TypeOK
    LedgersAgree
    SaidIsTrue
    AsPreviewed
    NoOtherFile
PROPERTY NothingOverwritten
