SPECIFICATION Spec
CONSTANTS
  Name <- MCNames
  Text <- MCTexts
  Tables <- MCTables
  Edits <- MCEdits
  Capacity = 2
  KeyField = "id"
  InstantDigits <- MCDigits
  EvalPipeline <- MCEval
  MaxRows = 3
  WithOdd = TRUE
INVARIANTS
  TableIsWellFormed
  GesturesAreNeverRefused
  ClientIsCurrent
PROPERTY
  IsEditLog
CHECK_DEADLOCK FALSE
