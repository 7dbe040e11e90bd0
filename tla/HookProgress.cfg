SPECIFICATION FairSpec
CONSTANTS
  MaxJobs = 2
  MaxPending = 1
  MaxConcurrent = 2
  SocketCap = 1
  MaxCrashes = 1
  NoKey = NoKey
  event = event
  snapshot = snapshot
  A = A
  B = B
  Kinds <- MCKinds
  Critical <- MCCritical
  SerialKey <- TwoCameras
  CoalesceKey <- MCCoalesceKey
PROPERTIES
  KeepsContract
  StopTerminates
  AcceptedIsAnswered
  HooksDieWithProgram
