SPECIFICATION Spec
CONSTANTS
    Task = {t1, t2}
    LockId = {l1, l2}
    Key = {search, page}
    search = search
    page = page
    Namespace <- Together
    MaxGen = 2
    NoKey = NoKey
    NoLock = NoLock
    NoTask = NoTask
    Absent = Absent
SYMMETRY Symmetry
INVARIANT InvalidationHolds
