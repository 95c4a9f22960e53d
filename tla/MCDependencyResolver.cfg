CONSTANTS
    Ids <- MCIds
    Length = "__length"
    Instantiations <- MCInstantiations
SPECIFICATION FairSpec
INVARIANTS
    TypeOK
    RoundInv
    Resolved
    Least
PROPERTIES
    OnlyGrows
    Terminates
CHECK_DEADLOCK FALSE
