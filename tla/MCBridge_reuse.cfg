SPECIFICATION FairSpec
CONSTANTS
    x = x  y = y
    None = None
    Mail = {x, y}
    Slots = {1, 2}
    EmailDelete = TRUE
    UserDeletes = FALSE
    MaxFaults = 0
PROPERTY Answered
CHECK_DEADLOCK FALSE
