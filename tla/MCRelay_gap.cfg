SPECIFICATION FairSpec
CONSTANTS
    a = a  b = b  c = c  f = f  g = g
    None = None
    Node <- ABC
    File <- TwoFiles
    Origin <- GapFrom
    Dest <- GapTo
    Whitelist <- GapList
    Blacklist <- Nobody
    Hosted <- AB
    Leaders <- SteadyLeader
    MaxHops = 3
    Slots = {1, 2, 3}
    MaxFaults = 1
    MayRestart = TRUE
PROPERTY Settles
