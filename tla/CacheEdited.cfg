SPECIFICATION Spec
CONSTANTS
    Builders = {b1}
    Token = Token
    TOKEN = TOKEN
    Counter = Counter
    Names = {Token}
    Lower <- ToLower
    Versions = {1, 2}
    Declares <- Declared
    EditsWhileStoring = TRUE
    Interrupts = FALSE
    NoEntry = NoEntry
    Torn = Torn
    Nil = Nil
INVARIANT CodeHashNamesTheCode
