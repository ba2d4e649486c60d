SPECIFICATION Spec
CONSTANTS
  Runs = {r1, r2}
  Md5s = {m1, m2}
  GitRefs = {}
  NoTag = NoTag
  NoRun = NoRun
  Torn = Torn
  Cloud = "gcp"
  Overlap = TRUE
  MaxFaults = 0
PROPERTY UploadsForOwnRequest
CHECK_DEADLOCK FALSE
