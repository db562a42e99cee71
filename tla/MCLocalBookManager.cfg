SPECIFICATION Spec
CONSTANTS
    Price <- MCPrice
    MaxId = 4
    Truth <- MCTruth
    SnapshotLimit = 1
    Feeds = {this, other}
    Feed = this
    MaxBufferedUpdates = 2
    MaxReceived = 5
INVARIANTS
    TypeOK
    BookMatchesExchange
    TopOfBookExact
    StatusMatchesBook
    NeverCrossed
    EveryUpdateAccounted
    BufferingIsTransparent
PROPERTIES
    UpdatesMoveForward
