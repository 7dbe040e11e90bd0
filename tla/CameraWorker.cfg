SPECIFICATION FairSpec
CONSTANTS
  MinimumMotionFrames = 2
  EventGap = 2
  PostCapture = 0
  MaxEventDuration = 2
  motion = motion
  people = people
  Keys <- MCKeys
  Holding <- MCHolding
  StateTimeout = 1
  Cameras <- MCCameras
  MaxTime = 2
INVARIANTS
  HooksMatchEvent
  RecordingMatchesEvent
  StatusSettles
PROPERTIES
  HardLifetime
  OnvifRulesEvent
  StopEndsWorker
