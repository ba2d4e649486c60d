SPECIFICATION Spec
CONSTANTS
  Runs = {r1}
  Md5s = {m1, m2}
  GitRefs = {g1}
  NoTag = NoTag
  NoRun = NoRun
  Torn = Torn
  Cloud = "kind"
  Overlap = FALSE
  MaxFaults = 1
INVARIANTS
  TypeOK
  VerifiedBeforeBuild
PROPERTIES
  RefinesContract
  NeverDeletesWantedJob
CHECK_DEADLOCK FALSE
