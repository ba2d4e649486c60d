SPECIFICATION FairSpec
CONSTANTS
  builder = builder
  modeller = modeller
  buildModels = buildModels
  buildServers = buildServers
  models = models
  Cloud = "gcp"
  Accounts = {builder, modeller}
  Sci = sci
  Workers = {buildModels, buildServers, models}
  AccountOf <- TwoBuilders
  MaxEvents = 1
  MaxEdits = 1
  MaxFaults = 1
INVARIANTS
  TypeOK
  AnnotatedIsBound
PROPERTIES
  RefinesPolicy
  IdentityIsRestored
CHECK_DEADLOCK FALSE
