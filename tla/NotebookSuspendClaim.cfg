SPECIFICATION FairSpec
CONSTANTS
  i1 = i1
  i2 = i2
  x = x
  y = y
  None = None
  Images = {i1}
  Shapes = {x}
  Refs = {}
  MaxEdits = 3
  MaxFaults = 0
  MaxEvents = 3
  First <- MCFirst
PROPERTIES
  SuspendStopsPod
CHECK_DEADLOCK FALSE
