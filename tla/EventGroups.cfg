SPECIFICATION Spec
CONSTANTS
  MinimumMotionFrames = 2
  EventGap = 2
  PostCapture = 2
  MaxEventDuration = 4
  MaxFrames = 6
  MaxStep = 2
INVARIANTS
  EventIsBounded
  GroupsFrames
CHECK_DEADLOCK FALSE
