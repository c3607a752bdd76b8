SPECIFICATION FairSpec
CONSTANTS
    Request = {r1, r2}
    both = both
    shared = shared
    u1 = u1
    u2 = u2
    Query = {both, shared}
    Url = {u1, u2}
    Urls <- Finds
    Topic <- About
    Call <- Contending
    Concurrency = 1
    MaxEpoch = 0
    Outcome = {TRUE}
    NoCall = NoCall
    Absent = Absent
INVARIANTS TypeOK NobodyStranded
PROPERTY SearchesEnd
