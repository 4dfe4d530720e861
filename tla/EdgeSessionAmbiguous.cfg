\* Two hosts, a store whose silence says nothing, trees that may not decode.
CONSTANTS
  Host = {h1, h2}
  Once = Once
  Twice = Twice
  Wide = TRUE
  Op <- MCOp
  Tree <- MCTree
  Seed <- MCSeed
  Apply <- MCApply
  Decodable <- MCDecodable
  NoTree = NoTree
  NoCheckpoint = NoCheckpoint
  NoRequest = NoRequest
  AmbiguousStore = TRUE
  MaxOps = 2
  MaxActivations = 2
  MaxInFlight = 2
SPECIFICATION FairSpec
PROPERTIES
  IsDurableLog
  NoCallHangs
CHECK_DEADLOCK FALSE
