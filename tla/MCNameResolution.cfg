CONSTANTS
    Programs <- MCPrograms
    ModuleName <- MCModuleName
    Builtins <- MCBuiltins
SPECIFICATION FairSpec
INVARIANTS
    TypeOK
    BackPointers
    ResolvedRight
    ItemsRight
    RejectedRight
PROPERTIES
    NeverMisread
    Terminates
