SPECIFICATION FairSpec
CONSTANTS
    Request = {r1, r2}
    Sources = {s1, s2}
    None = None
INVARIANTS TypeOK OnlyAnswersCached RepliesAreRecorded
PROPERTY ResearchEnds
