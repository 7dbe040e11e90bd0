SPECIFICATION Spec
CONSTANTS
  InitialFrames = 2
  Streams <- MCStreams
  MaxKeepalives = 2
  MaxOthers = 1
  MaxSessions = 2
  MaxAir = 2
INVARIANTS
  StreamIsExact
  KeepalivesAnswered
CHECK_DEADLOCK FALSE
