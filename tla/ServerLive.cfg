SPECIFICATION FairSpec
CONSTANTS
  d = d
  b = b
  m = m
  srv = srv
  None = None
  Models = {m}
  Datasets = {}
  Servers = {srv}
  Images = {i1, i2}
  NewImages = {i1}
  BaseOf <- ChainBase
  DataOf <- ChainBase
  ModelOf <- ChainServer
  MaxEdits = 4
  MaxFaults = 1
  MaxEvents = 4
  Story <- ServerStory
PROPERTIES
  ServerFollowsModel
CHECK_DEADLOCK FALSE
