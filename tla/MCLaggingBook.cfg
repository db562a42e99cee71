SPECIFICATION Spec
CONSTANTS
    Price <- MCPrice
    MaxId = 3
    Truth <- MCTruth
    SnapshotLimit = 1
    MaxBufferedUpdates = 2
    Feeds <- SymbolFeeds
    SymbolList <- OneSymbol
    Threads <- SymbolThreads
    Group <- OneThreadPerSymbol
    MaxMessages = 3
    NoThread = NoThread
INVARIANT ReadyBookIsCurrent
