SPECIFICATION WorkerSpec
CONSTANTS
  IdleDelay = 2
  PeriodicInterval = 3
  JobTimeout = 3
  Grace = 1
  MaxQueue = 2
INVARIANT Punctual
