SPECIFICATION FairSpec
CONSTANTS
    f = f  g = g  h = h  w = w  v = v  loop = loop  pull = pull
    None = None
    File = {f, g}
    Slots = {1, 2}
    Writer = {w}
    Taker = {loop, pull}
    Loop = loop
    MayRestart = TRUE
    MaxFaults = 1
INVARIANT CopiesCountFaults
PROPERTY Empties
CHECK_DEADLOCK FALSE
