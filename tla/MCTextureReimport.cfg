SPECIFICATION Spec
CONSTANTS
  Keys = {k1, k2}
  Capacity = 2
  None = None
  MaxFramesInFlight = 2
  MaxUploads = 1
  Releases = "created"
  Overlaps = FALSE
  MaxReimports = 1
  MaxFrames = 5
  MaxImages = 3
SYMMETRY Symmetric
CHECK_DEADLOCK FALSE
PROPERTIES
  SampledDescriptorsStable
