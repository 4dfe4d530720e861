\* Two sinks on one path, in turns or at once; processes die and the disk refuses.
CONSTANTS
  Handle = {h1, h2}
  Faults = TRUE
  Junk = Junk
  Nothing = Nothing
  MaxRecords = 3
  MaxAppends = 5
SPECIFICATION Spec
INVARIANTS
  OpenNeverDrops
  OpenedIsContiguous
CHECK_DEADLOCK FALSE
