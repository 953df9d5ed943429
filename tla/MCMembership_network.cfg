SPECIFICATION FairSpec
CONSTANTS
    a = a  b = b  c = c
    None = None
    Node <- ABC
    Whitelist <- CLast
    Blacklist <- Nobody
    Hosted <- AB
    Listens <- ABC
    Eligible <- ABC
    Reach <- All
    Rekeyed = {a}
    Revocable <- KeyOfA
    MaxEvents = 2
INVARIANTS TypeOK TellersRefuse
PROPERTIES NeverForgets Settled Agreement FollowersRefuseAlike StaysOnCourse
CHECK_DEADLOCK FALSE
