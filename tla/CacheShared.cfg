SPECIFICATION Spec
CONSTANTS
    Builders = {b1, b2}
    Token = Token
    TOKEN = TOKEN
    Counter = Counter
    Names = {Token, TOKEN}
    Lower <- ToLower
    Versions = {1, 2}
    Declares <- Declared
    EditsWhileStoring = FALSE
    Interrupts = TRUE
    NoEntry = NoEntry
    Torn = Torn
    Nil = Nil
SYMMETRY BuilderSymmetry
INVARIANT TypeOK
PROPERTY CompilesAtOneMoment
