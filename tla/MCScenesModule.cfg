SPECIFICATION Spec
CONSTANTS
  Persistent = dont_destroy_on_load
  None = no_operation
  MaxOperations = 3
INVARIANTS
  ActiveIsLoaded
  NodesInLiveScenes
  LoadsInOrder
  NoOperationLost
PROPERTIES
  IssuedIsSettled
