SPECIFICATION Spec
CONSTANTS
    f = f  g = g  h = h  w = w  v = v  loop = loop  pull = pull
    None = None
    File = {f, g}
    Slots = {1, 2, 3}
    Writer = {w, v}
    Taker = {loop, pull}
    Loop = loop
    MayRestart = FALSE
    MaxFaults = 0
PROPERTY NothingOverwritten
