CONSTANTS
    Base <- MCBase
    Fields <- MCFields
    LengthsOf <- MCLengthsOf
    Variables <- MCVariables
    WidthOf <- MCWidthOf
    Units <- MCUnits
    Edits <- MCEdits
    Payloads <- MCPayloads
    OutSize = 15
    StackSize = 5
    BlockSize = 2
    Junk = Junk
    ReuseInput = FALSE
SPECIFICATION Spec
INVARIANTS
    TypeOK
    LengthsCurrent
    ResumeInv
    WritesCommand
PROPERTIES
    WritesInBuffer
    ImplementsUnbounded
