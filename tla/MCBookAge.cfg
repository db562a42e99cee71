SPECIFICATION Spec
CONSTANTS
    Price <- MCPrice
    MaxId = 2
    Truth <- MCTruth
    SnapshotLimit = 1
    MaxBufferedUpdates = 2
    Feeds <- OneSymbolFeeds
    SymbolList <- OneSymbol
    Threads <- ExchangeThreads
    Group <- OneThreadPerExchange
    MaxMessages = 2
    NoThread = NoThread
PROPERTY OldBooksNotScanned
