SPECIFICATION Spec
CONSTANTS
  Nodes <- MCNodes
  Questions <- MCQuestions
  Owner <- MCOwner
  Gesture <- MCGesture
  Branch <- MCBranch
  Readers <- MCReaders
  Keys <- MCKeys
  Vals <- MCVals
  Reserved <- MCReserved
  Fields <- MCFields
  CommitTo <- MCCommitTo
  Reads <- MCReads
  HostStore <- MCHostStore
  MayDispatch <- MCMayDispatch
  MayContinue <- MCMayContinue
  MayWrite <- MCMayWrite
  MaxActions = 2
  MaxNodes = 9
  NodeCost = 4
  Absent = "absent"
  NoAction = NoAction
  NoAnswer = NoAnswer
  Unknown = Unknown
  MaxEvents = 7
INVARIANTS
  OneAnswerPerAsking ReadersShowTheStore EffectsAreAdmitted
CHECK_DEADLOCK FALSE
