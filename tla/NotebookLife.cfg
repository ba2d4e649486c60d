SPECIFICATION FairSpec
CONSTANTS
  i1 = i1
  i2 = i2
  x = x
  y = y
  None = None
  Images = {i1, i2}
  Shapes = {x, y}
  Refs = {"model", "dataset"}
  MaxEdits = 3
  MaxFaults = 1
  MaxEvents = 3
  First <- MCFirst
INVARIANTS
  TypeOK
  PodAfterInputs
PROPERTIES
  NotebookRuns
  SuspendStops
  UnreadyWithInputs
CHECK_DEADLOCK FALSE
