SPECIFICATION FairSpec
CONSTANTS
    Price <- MCPrice
    MaxId = 3
    Truth <- MCTruth
    SnapshotLimit = 1
    MaxBufferedUpdates = 1
    Feeds <- SymbolFeeds
    SymbolList <- TwoSymbols
    Threads <- SymbolThreads
    Group <- OneThreadPerSymbol
    MaxMessages = 2
    NoThread = NoThread
INVARIANTS
    TypeOK
    SummaryIsRight
PROPERTIES
    LaggingBookIsFoundOut
    ModeEnds
