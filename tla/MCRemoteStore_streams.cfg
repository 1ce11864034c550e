SPECIFICATION FairSpec
CONSTANTS
    t1 = t1
    t2 = t2
    Target = {t1, t2}
    MaxPendingWrites = 2
    MaxWrites = 3
    MaxCredentialChanges = 1
INVARIANTS
    TypeOK
    AssertionsHold
    NeededStreamsRun
    SentIsPipeline
    WatchedIsListened
    OnlyIdleStreamsStop
PROPERTIES
    DeliverySpec
    FetchesEnd
    WritesSettle
