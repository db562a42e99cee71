SPECIFICATION Spec
CONSTANTS
    Price <- MCPrice
    BookPairs <- MCBookPairs
    TakerFeeBps <- MCTakerFeeBps
    MinNetSpreadBps = 500
    MinNotional = 20
    MaxNotional = 60
    MaxDepthLevels = 2
INVARIANTS
    TypeOK
    WalkIsExecutable
    WalkIsOptimal
    TopSpreadBounds
    FiltersHold
PROPERTIES
    WalkAdvances
