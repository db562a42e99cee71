SPECIFICATION FairSpec
CONSTANTS
    Price <- MCPrice
    MaxId = 2
    Truth <- MCTruth
    SnapshotLimit = 1
    MaxBufferedUpdates = 2
    Feeds <- OneSymbolFeeds
    SymbolList <- SameSymbolTwice
    Threads <- ExchangeThreads
    Group <- OneThreadPerExchange
    MaxMessages = 0
    NoThread = NoThread
INVARIANT ReadyBookIsCurrent
PROPERTIES
    FeedsSettle
    StopsAfterFeeds
