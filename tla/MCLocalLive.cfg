SPECIFICATION FairSpec
CONSTANTS
    Price <- MCPrice
    MaxId = 4
    Truth <- MCTruth
    SnapshotLimit = 1
    MaxBufferedUpdates = 2
    Feeds <- OneFeed
    Feed <- OneSymbol
    MaxMessages = 4
INVARIANTS
    TypeOK
    ReadyBookIsCurrent
    SummaryIsRight
PROPERTIES
    FeedIsView
    ModeEnds
