SPECIFICATION RenderSpec
CONSTANTS
  MainThread = main
  WorkerThread = worker
  MaxFrames = 4
INVARIANTS
  IdleSectionExclusive
  EveryKickRendered
PROPERTIES
  KickIsServed
  TerminateJoins
  HandoffContract
