SPECIFICATION Spec
CONSTANTS
    Request = {r1, r2}
    both = both
    shared = shared
    u1 = u1
    u2 = u2
    Query = {shared}
    Url = {u2}
    Urls <- Finds
    Topic <- About
    Call <- Policies
    Concurrency = 1
    MaxEpoch = 1
    Outcome = {TRUE, FALSE}
    NoCall = NoCall
    Absent = Absent
SYMMETRY Symmetry
INVARIANTS FreshReplies CachedIsRecorded
PROPERTY BypassLeavesNoTrace
