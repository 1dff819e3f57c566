SPECIFICATION Spec
CONSTANTS
  Threads = {t1, t2}
  Slots = {s1, s2, s3}
  AtStart = {s1, s2}
  Conditions = {{s1, s3}}
  MaxEmissions = 2
  MaxDepth = 2
  MaxMatches = 1
CHECK_DEADLOCK FALSE
INVARIANTS
  CountsAreHolders
  ListIsExact
  SnapshotIsCalled
PROPERTIES
  CallsReturn
