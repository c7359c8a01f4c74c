SPECIFICATION Spec
CONSTANTS
    a1 = a1
    a2 = a2
    a3 = a3
    Addresses = {a1, a2, a3}
    Zero = Zero
    OnLedger = {a1}
    KeyFile <- Files
    Bad = Bad
    None = None
    NoNumber = NoNumber
    NativeSizes <- Natives
    BigSizes <- Bigs
    WordBits <- Bits
    FixedSizes <- Lengths
    AddressLen <- AddressBytes
    ArgCases <- Cases
INVARIANT FromMustMatch
