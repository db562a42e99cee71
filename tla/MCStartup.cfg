SPECIFICATION FeedSpec
CONSTANTS
    Symbol <- MCSymbol
    Fold <- MCFold
    SymbolLists <- MCSymbolLists
    Limits <- MCLimits
    WordSize = 8
    NoSymbol = ""
    NoSection = NoSection
    NoNumber = NoNumber
    Files <- MCFiles
    Flags <- MCFlags
    MessageLimits <- MCMessageLimits
    Messages <- MCMessages
INVARIANTS
    FeedTypeOK
    EverySymbolConnected
    EveryStreamOnOneConnection
    FailsCleanly
    EveryMessageCounted
PROPERTY LoopAdvances
