CONSTANTS
    Base <- MCBase
    Fields <- MCCompactFields
    LengthsOf <- MCCompactLengthsOf
    Variables <- MCCompactVariables
    WidthOf <- MCCompactWidthOf
    Units <- MCCompactUnits
    Edits <- MCEdits
    Payloads <- MCCompactPayloads
    OutSize = 15
    StackSize = 5
    BlockSize = 2
    Junk = Junk
    ReuseInput = TRUE
SPECIFICATION FairSpec
INVARIANTS
    WritesCompactCommand
PROPERTY ReturnsWritten
