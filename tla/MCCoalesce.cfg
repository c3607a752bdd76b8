SPECIFICATION FairSpec
CONSTANTS
    Task = {t1, t2, t3}
    LockId = {l1, l2, l3}
    Key = {search}
    search = search
    page = page
    Namespace <- Apart
    MaxGen = 0
    NoKey = NoKey
    NoLock = NoLock
    NoTask = NoTask
    Absent = Absent
INVARIANTS NobodyForgotten SingleFlight TableLive
PROPERTY CallsEnd KeepsContract
