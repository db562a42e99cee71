SPECIFICATION Spec
CONSTANTS
    Price <- MCPrice
    MaxId = 3
    Truth <- MCTruth
    SnapshotLimit = 1
    MaxBufferedUpdates = 2
    Feeds <- OneSymbolFeeds
    SymbolList <- OneSymbol
    Threads <- ExchangeThreads
    Group <- OneThreadPerExchange
    MaxMessages = 3
    NoThread = NoThread
INVARIANTS
    TypeOK
    ReadyBookIsCurrent
    CleanStopReadEverything
PROPERTIES
    ScannedBooksCurrent
    FeedsAreViews
