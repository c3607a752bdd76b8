SPECIFICATION FairSpec
CONSTANTS
    Options <- Choices
    Media <- Archives
    Found = {"release"}
    Thread = {t1, closer}
    Closer = closer
    Job = {"stop", "restart"}
    NoThread = nothread
INVARIANTS TypeOK Serialized ImagesVerified NoPullNeeded HonestResult
PROPERTY CloseEnds
