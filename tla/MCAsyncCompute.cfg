SPECIFICATION Spec
CONSTANTS
  Lists = {l1, l2}
  Buffers = {b1}
  MaxFramesInFlight = 2
  MaxFrames = 3
CHECK_DEADLOCK FALSE
INVARIANTS
  FramesAwaitLists
  DeviceUsesLiveResources
PROPERTIES
  DeviceDrains
