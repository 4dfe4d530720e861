\* Two hosts, a store that fails only definitely.
CONSTANTS
  Host = {h1, h2}
  Once = Once
  Twice = Twice
  Wide = FALSE
  Op <- MCOp
  Tree <- MCTree
  Seed <- MCSeed
  Apply <- MCApply
  Decodable <- MCDecodable
  NoTree = NoTree
  NoCheckpoint = NoCheckpoint
  NoRequest = NoRequest
  AmbiguousStore = FALSE
  MaxOps = 3
  MaxActivations = 3
  MaxInFlight = 3
SPECIFICATION Spec
SYMMETRY HostSymmetry
INVARIANTS
  SafetyInv
  RetryIsSafe
CHECK_DEADLOCK FALSE
