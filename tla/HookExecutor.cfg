SPECIFICATION Spec
CONSTANTS
  MaxJobs = 3
  MaxPending = 2
  MaxConcurrent = 2
  SocketCap = 1
  MaxCrashes = 1
  NoKey = NoKey
  event = event
  snapshot = snapshot
  A = A
  B = B
  Kinds <- MCKinds
  Critical <- MCCritical
  SerialKey <- TwoCameras
  CoalesceKey <- MCCoalesceKey
INVARIANTS
  Conservation
  AnsweredOnce
  SerialProcesses
  StartOrder
  StopLeavesNoHook
