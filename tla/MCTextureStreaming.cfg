SPECIFICATION Spec
CONSTANTS
  Keys = {k1, k2}
  Capacity = 2
  None = None
  MaxFramesInFlight = 2
  MaxUploads = 2
  Releases = "resident"
  Overlaps = FALSE
  MaxReimports = 2
  MaxFrames = 6
  MaxImages = 4
SYMMETRY Symmetric
CHECK_DEADLOCK FALSE
INVARIANTS
  TypeOK
  FramesSampleLiveImages
  FramesSampleTheirTextures
  ResidentIsUploaded
  NothingQueuedIsDead
  RetireOrdered
  SlotReusable
