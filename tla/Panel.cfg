\* Lossy lines, a pipe that may refuse a write; budgets of one frame up to a root and a reading.
CONSTANTS
  Entry = {t, u}
  Value = {v1, v2}
  Unset = Unset
  Root = Root
  Cost <- MCCost
  Budgets = {2, 4, 5}
  MaxWrites = 2
  MaxLosses = 1
  MaxEarly = 1
  MaxFaults = 1
SPECIFICATION FairSpec
INVARIANTS
  WindowIsNewest
PROPERTIES
  ReplayCarriesWritten
  IsFeed
  ClientEndsCurrent
CHECK_DEADLOCK FALSE
