SPECIFICATION Spec
CONSTANTS
    IdOrder <- MCIdOrder
    MaxDepth = 3
    MaxNodes = 5
    Base <- MCBase
    Ops <- MCOps
    Clips <- MCClips
    MaxEdits <- MCMaxEdits
INVARIANTS
    MergeIsSymmetric
    MergeIsFaithful
    PlacementAgrees
    DiffNeverMisleads
CHECK_DEADLOCK FALSE
