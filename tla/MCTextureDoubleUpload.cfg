SPECIFICATION Spec
CONSTANTS
  Keys = {k1, k2}
  Capacity = 2
  None = None
  MaxFramesInFlight = 2
  MaxUploads = 2
  Releases = "created"
  Overlaps = TRUE
  MaxReimports = 1
  MaxFrames = 4
  MaxImages = 3
SYMMETRY Symmetric
CHECK_DEADLOCK FALSE
INVARIANTS
  NothingQueuedIsDead
