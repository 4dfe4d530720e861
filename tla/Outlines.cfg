SPECIFICATION Spec
CONSTANTS
  IdOrder <- MCIdOrder
  Id <- MCId
  Payload <- MCNode
  Op <- MCOp
  Seeds <- MCSeeds
  MaxDepth = 3
  MaxNodes = 5
INVARIANTS
  OutlineIsLegal
  DraftsAreAccounted
  EngineAgrees
CHECK_DEADLOCK FALSE
