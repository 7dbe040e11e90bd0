SPECIFICATION Spec
CONSTANTS
  MinimumMotionFrames = 2
  EventGap = 2
  PostCapture = 0
  MaxEventDuration = 2
  motion = motion
  people = people
  Keys <- MCKeys
  Holding <- MCHolding
  StateTimeout = 1
  Cameras <- MCCameras
  MaxTime = 2
INVARIANT FailureIsolation
