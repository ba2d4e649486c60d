SPECIFICATION FairSpec
CONSTANTS
  d = d
  b = b
  m = m
  srv = srv
  None = None
  Models = {b, m}
  Datasets = {}
  Servers = {}
  Images = {i1, i2}
  NewImages = {i1}
  BaseOf <- TunedBase
  DataOf <- TunedData
  ModelOf <- NoServer
  MaxEdits = 3
  MaxFaults = 1
  MaxEvents = 4
  Story <- AnyStory
PROPERTIES
  ReadyIsKept
  ReadinessSpreads
CHECK_DEADLOCK FALSE
