CONSTANTS
    Runs = {"r1", "r2", "r3"}
    Release <- MCRelease
    ArchList <- MCArchList
    None = "none"
    Self = "r1"
    NodeArch = "arm64"
    Files = {"f", "g", ".f"}
    Unwatched = {".f"}
    MaxEdits = 3
    MaxMisses = 1
SPECIFICATION FairSpec
INVARIANTS TypeOK WatcherIsWhole Mirrors
PROPERTIES Settles ReaderEnds
CHECK_DEADLOCK FALSE
VIEW MCView
