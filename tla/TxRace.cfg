SPECIFICATION Spec
CONSTANTS
    Calls = {c1, c2, c3}
    a1 = a1
    p1 = p1
    p2 = p2
    Accounts = {a1}
    Payloads = {p1, p2}
    Prices = {1, 2}
    MaxForeign = 0
    Requests <- RacingRequests
    EnableCoverage = FALSE
    SourcesReadable = TRUE
    CallerDeadline = {c1, c2, c3}
    NoTx = NoTx
SYMMETRY CallSymmetry
INVARIANT OneWinnerPerNonce
INVARIANT NoGap
INVARIANT AddressHoldsOwnCode
PROPERTY NonceAfterConfirmed
