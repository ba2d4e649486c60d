SPECIFICATION Spec
CONSTANTS
  Runs = {r1, r2, r3}
  Md5s = {m1, m2}
  GitRefs = {}
  NoTag = NoTag
  NoRun = NoRun
  Torn = Torn
  Cloud = "gcp"
  Overlap = FALSE
  MaxFaults = 1
SYMMETRY BuildSymmetry
INVARIANTS
  ImageIsBuilt
  StatusOfOneRequest
  ReleasedContent
  UploadsToOwnURL
PROPERTY ImageOfCurrentBuild
CHECK_DEADLOCK FALSE
