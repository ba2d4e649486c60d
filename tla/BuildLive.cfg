SPECIFICATION FairSpec
CONSTANTS
  Runs = {r1, r2}
  Md5s = {m1, m2}
  GitRefs = {}
  NoTag = NoTag
  NoRun = NoRun
  Torn = Torn
  Cloud = "gcp"
  Overlap = FALSE
  MaxFaults = 1
PROPERTIES
  UploadIsBuilt
  WatchIsAnswered
CHECK_DEADLOCK FALSE
