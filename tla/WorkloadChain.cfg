SPECIFICATION Spec
CONSTANTS
  d = d
  b = b
  m = m
  srv = srv
  None = None
  Models = {m}
  Datasets = {d}
  Servers = {srv}
  Images = {i1}
  NewImages = {i1}
  BaseOf <- ChainBase
  DataOf <- ChainData
  ModelOf <- ChainServer
  MaxEdits = 3
  MaxFaults = 1
  MaxEvents = 4
  Story <- AnyStory
INVARIANTS
  TypeOK
  ReadyIsEarned
  JobAfterInputs
PROPERTIES
  RefinesTrainingOrder
CHECK_DEADLOCK FALSE
