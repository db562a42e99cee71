SPECIFICATION Spec
CONSTANTS
    Price <- MCPrice
    MaxId = 2
    Truth <- MCTruth
    SnapshotLimit = 1
    MaxBufferedUpdates = 2
    Feeds <- OneFeed
    Feed <- OneSymbol
    MaxMessages = 1
INVARIANT FailuresReachMain
