SPECIFICATION Spec
CONSTANTS
    Price <- MCPrice
    SymbolLists <- MCSymbolLists
    Bodies <- MCBodies
    Text <- MCText
    Value <- MCValue
    NotANumber = NotANumber
    LiveStores <- MCLiveStores
    SpreadsToPrint = 1
    OpportunitiesToPrint = 1
    TakerFeeBps <- MCTakerFeeBps
    MinNetSpreadBps = 500
    MinNotional = 20
    MaxNotional = 60
    MaxDepthLevels = 2
INVARIANTS
    FailureCostsOneBook
    SummariesAgree
    ReportIsBest
