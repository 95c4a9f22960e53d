CONSTANTS
    Base <- MCBase
    Program <- MCProgram
    Defined <- MCDefined
    Inputs <- MCInputs
    AreaSize = 10
    UnitSize = 2
    StackSize = 3
    BlockSize = 2
    Junk = Junk
    RetryOnFull = FALSE
SPECIFICATION FairSpec
INVARIANTS
    TypeOK
    NoOverread
    KeptIntact
    DeliversSent
    ResumeInv
PROPERTIES ImplementsOneShot AllDelivered
