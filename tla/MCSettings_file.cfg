SPECIFICATION FairSpec
CONSTANTS
    v = v  s = s
    unrevoke = unrevoke  form = form
    None = None  New = New  Old = Old  Empty = Empty  Garbage = Garbage
    Item = {v, s}
    Taught = {s}
    Command <- Changes
    Form = {form}
    Adds <- AddsOf
    Removes <- RemovesOf
    Initial = {}
    Inode = {1, 2, 3}
    MaxEvents = 1
INVARIANTS TypeOK NeverTorn LearnedIsSaved NoMissedRestart IInv
PROPERTIES SaveTellsTruth KeepsOthers TakesEffect
CHECK_DEADLOCK FALSE
