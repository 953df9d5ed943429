SPECIFICATION FairSpec
CONSTANTS
    x = x  y = y
    None = None
    Mail = {x, y}
    Slots = {1, 2, 3}
    EmailDelete = TRUE
    UserDeletes = TRUE
    MaxFaults = 1
INVARIANTS TypeOK RunOnce IInv SentCountsFaults
PROPERTY Accounted
CHECK_DEADLOCK FALSE
