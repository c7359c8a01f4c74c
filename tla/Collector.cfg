SPECIFICATION SessionSpec
CONSTANTS
    c1 = c1
    c2 = c2
    Calls = {c1, c2}
    Orders <- SmallOrders
    Listed <- MarkedListed
    Runs <- MarkedRuns
    Sites <- MarkedSites
    Contracts <- Session
    Text <- SmallText
    MaxReports = 20
    None = None
SYMMETRY CallSymmetry
INVARIANT CountsAreReports
INVARIANT NoCrash
INVARIANT ShownAtItsLine
INVARIANT OneRowPerStatement
INVARIANT CountsAreExecutions
INVARIANT MarkedOnce
INVARIANT LogsInOrder
PROPERTY CountsGrow
