SPECIFICATION Spec
CONSTANTS
    f = f  g = g  h = h  w = w  v = v  loop = loop  pull = pull
    None = None
    File = {f, g}
    Slots = {1, 2}
    Writer = {w}
    Taker = {loop, pull}
    Loop = loop
    MayRestart = FALSE
    MaxFaults = 2
SYMMETRY Alike
INVARIANTS TypeOK LossNeedsMishap IInv
CHECK_DEADLOCK FALSE
