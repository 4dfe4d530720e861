SPECIFICATION Spec
CONSTANTS
    IdOrder <- MCIdOrder
    MaxDepth = 3
    MaxNodes = 5
    Base <- MCBase
    Ops <- MCOps
    Clips <- MCClips
    MaxEdits <- MCMaxEdits
INVARIANT DiffAlwaysReplays
CHECK_DEADLOCK FALSE
