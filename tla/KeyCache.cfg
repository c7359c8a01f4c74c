SPECIFICATION Spec
CONSTANTS
    Procs = {g1, g2}
    a1 = a1
    a2 = a2
    w1 = w1
    Empty = Empty
    Addresses = {a1, a2}
    Passwords = {Empty, w1}
    Dirs = {1}
    Wallets <- OneDir
    Bad = Bad
    CacheAlone = TRUE
    None = None
SYMMETRY ProcSymmetry
INVARIANT PasswordOpens
INVARIANT DecryptedOnce
