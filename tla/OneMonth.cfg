CONSTANTS
    oct = oct
    dec = dec
    Months <- MCOneMonth
    Scopes <- MCAllOrNone
    Returns = TRUE
    Answers = FALSE
    MaxKills = 2
    MaxChanges = 5
SPECIFICATION FairSpec
PROPERTIES
    ListedIsTried
    OfferedIsKept
