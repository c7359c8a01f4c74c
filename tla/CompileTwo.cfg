SPECIFICATION Spec
CONSTANTS
    Token = Token
    Vault = Vault
    IToken = IToken
    Names = {Token, Vault, IToken}
    Paths = {f1, f2, f3}
    Interfaces = {IToken}
    MaxSources = 2
    Blank = Blank
INVARIANT OneContractPerFile
