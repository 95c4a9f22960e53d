CONSTANTS
    Base <- MCBase
    Program <- MCCompactProgram
    Defined <- MCCompactDefined
    Inputs <- MCCompactInputs
    AreaSize = 5
    UnitSize = 2
    StackSize = 6
    BlockSize = 2
    Junk = Junk
    RetryOnFull = TRUE
SPECIFICATION Spec
INVARIANTS
    StackBounded
    DeliversSent
    AreaTiled
CHECK_DEADLOCK FALSE
