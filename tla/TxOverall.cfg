SPECIFICATION FairSpec
CONSTANTS
    Calls = {c1}
    a1 = a1
    p1 = p1
    p2 = p2
    Accounts = {a1}
    Payloads = {p1, p2}
    Prices = {1}
    MaxForeign = 0
    Requests <- RacingRequests
    EnableCoverage = FALSE
    SourcesReadable = TRUE
    CallerDeadline = {}
    NoTx = NoTx
PROPERTY TxTimeoutIsOverall
