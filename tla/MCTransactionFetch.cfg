\* Chunks of four in a window of three; up to two chunks and one signature.
SPECIFICATION FairSpec
CONSTANTS
    s1 = s1
    s2 = s2
    s3 = s3
    s4 = s4
    s5 = s5
    s6 = s6
    s7 = s7
    s8 = s8
    s9 = s9
    Sigs = {s1, s2, s3, s4, s5, s6, s7, s8, s9}
    Batches <- LeasedBatches
    ChunkSize = 4
    Buffered = 3
INVARIANTS
    TypeOK
    CallsStayInWindow
    ResultsFollowBatch
PROPERTIES
    ImplementsBatchFetch
    FetchReturns
