SPECIFICATION Spec
CONSTANTS
  Thieves = {t1, t2}
  Capacity = 2
  MaxPush = 5
INVARIANTS
  TakenAtMostOnce
  NothingLost
PROPERTIES
  DequeContract
