\* Two retained frames, three pushed, two drops, three rejects.
CONSTANTS
  Root = Root
  Leaf = Leaf
  Grow = Grow
  Mark = Mark
  MountApp = MountApp
  Hide = Hide
  Denied = Denied
  NoTree = NoTree
  MaxLen = 5
  Tree <- MCTree
  Seed <- MCSeed
  Op <- MCOp
  Apply <- MCApply
  Node <- MCNode
  Event <- MCEvent
  Has <- MCHas
  Legitimate <- MCLegitimate
  Answers <- MCAnswers
  Needs <- MCNeeds
  StateNeeds <- MCStateNeeds
  Mounted <- MCMounted
  Grants = {"clock"}
  BufferCap = 2
  RejectCap = 2
  MaxFrames = 3
  MaxRejects = 3
  MaxDrops = 2
  MaxWire = 4
SPECIFICATION FairSpec
INVARIANTS
  FeedInv
  OnlyVettedMounted
PROPERTIES
  IsFeed
  ClientCatchesUp
CHECK_DEADLOCK FALSE
