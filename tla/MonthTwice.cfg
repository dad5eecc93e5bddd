CONSTANTS
    oct = oct
    dec = dec
    Months <- MCOneMonth
    Scopes <- MCAllOrNone
    Returns = TRUE
    Answers = FALSE
    MaxKills = 0
    MaxChanges = 5
SPECIFICATION Spec
INVARIANTS
    OneCopy
