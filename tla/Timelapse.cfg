SPECIFICATION FairSpec
CONSTANTS
  Cameras = {c1, c2}
  MaxDay = 2
  MaxRecordings = 2
  MaxFrames = 1
  MaxCrashes = 1
  MaxAborts = 1
  NoPath = NoPath
INVARIANTS
  MarkerIsTrue
  FinishedIsKept
  ArchiveIsFinished
PROPERTIES
  NeverTruncated
  FinishedIsArchived
