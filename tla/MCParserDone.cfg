CONSTANTS
    Base <- MCBase
    Program <- MCCompactProgram
    Defined <- MCCompactDefined
    Inputs <- MCCompactInputs
    AreaSize = 5
    UnitSize = 2
    StackSize = 3
    BlockSize = 2
    Junk = Junk
    RetryOnFull = FALSE
SPECIFICATION Spec
INVARIANT ResetOnDone
