CONSTANTS
    oct = oct
    dec = dec
    Months <- MCTwoMonths
    Scopes <- MCAll
    Returns = FALSE
    Answers = TRUE
    MaxKills = 0
    MaxChanges = 4
SPECIFICATION Spec
INVARIANTS
    TypeOK
    OneCopy
PROPERTIES
    KeptNeverUnlisted
    UnreadMarksNothing
