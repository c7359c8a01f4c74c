SPECIFICATION FairSpec
CONSTANTS
    Procs = {g1, g2}
    a1 = a1
    a2 = a2
    w1 = w1
    Empty = Empty
    Addresses = {a1, a2}
    Passwords = {Empty, w1}
    Dirs = {1, 2}
    Wallets <- TwoDirs
    Bad = Bad
    CacheAlone = FALSE
    None = None
INVARIANT TypeOK
INVARIANT OneAtATime
INVARIANT WaitsForHolderOnly
INVARIANT Registered
PROPERTY KeyCallReturns
