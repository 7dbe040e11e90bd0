SPECIFICATION Spec
CONSTANTS
  TicksPerSecond = 1
  NoStamp = NoStamp
  Preroll = 2
  MaxRing = 4
  Grace = 2
  Cameras <- MCCameras
  MinimumMotionFrames = 1
  EventGap = 1
  PostCapture = 1
  MaxEventDuration = 0
INVARIANTS
  RingIsPreroll
  MovieIsWindow
  MovieTimes
  DecodesWhole
  NotDowngraded
