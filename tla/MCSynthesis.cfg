SPECIFICATION FairSpec
CONSTANTS
    MaxDocuments = 6
    BatchSize = 2
    CompactBatchSize = 3
    Threshold = 6
    MaxChat = 3
    RetryChars <- Chars
    Words = Words
    Mark = Mark
INVARIANT TypeOK
PROPERTIES SynthesisEnds KeepsContract
