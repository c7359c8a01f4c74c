SPECIFICATION FairCallSpec
CONSTANTS
    Calls = {c1, c2}
    a1 = a1
    p1 = p1
    p2 = p2
    Accounts = {a1}
    Payloads = {p1, p2}
    Prices = {1}
    MaxForeign = 1
    Requests <- AllRequests
    EnableCoverage = TRUE
    SourcesReadable = TRUE
    CallerDeadline = {c1}
    NoTx = NoTx
INVARIANT CallTypeOK
INVARIANT HashTracksTransaction
INVARIANT OneDialer
INVARIANT CoverageMatchesChain
INVARIANT CoverageComplete
INVARIANT ReadsOwnWrite
INVARIANT FetchedTagCounted
INVARIANT WaitsForDialerOnly
PROPERTY KeepsPromise
PROPERTY EveryCallReturns
PROPERTY CallReturns
