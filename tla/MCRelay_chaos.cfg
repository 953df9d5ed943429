SPECIFICATION Spec
CONSTANTS
    a = a  b = b  c = c  f = f  g = g
    None = None
    Node <- ABC
    File <- OneFile
    Origin <- FromB
    Dest <- ToC
    Whitelist <- Everyone
    Blacklist <- Nobody
    Hosted <- AB
    Leaders <- AnyLeader
    MaxHops = 3
    Slots = {1, 2, 3}
    MaxFaults = 2
    MayRestart = TRUE
INVARIANTS TypeOK NoLoss StoredMeansSafe IInv DuplicatesNeedFaults SentOnce
PROPERTY KeepsPromise
