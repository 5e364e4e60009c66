SPECIFICATION ToolsSpec
CONSTANTS
    GroupBits = 3
    WordBits = 8
    MaxGroups = 3
    LastLimit = 2
    Files <- MCFiles
INVARIANTS
    ToolsTypeOK
    TypesAgree
    AcceptedAsAnnounced
    ReencodedForm
    FunctionsKept
    WrittenIsRead
    DeltasKept
PROPERTIES
    CheckVerdict
    ToolEnds
