SPECIFICATION Spec
CONSTANTS
  Images = {"color", "color_msaa", "depth", "bloom_upsample"}
  Buffers = {"indirect_args"}
  WriteAccesses <- MCWriteAccesses
  Catalogue <- AnyFour
  EndsShort = {"bloom_upsample"}
  MaxFrames = 2
CHECK_DEADLOCK FALSE
INVARIANTS
  UsesAreOrdered
  UsesSeeWrites
  UsesFindContent
