SPECIFICATION Spec
CONSTANTS
  Keys = {k1, k2}
  None = None
  MaxTake = 2
  MaxSubmits = 3
INVARIANTS
  LatestSurvives
  CompiledOnceInOrder
PROPERTIES
  EditIsReported
  AbortJoins
