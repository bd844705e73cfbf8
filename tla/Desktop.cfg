SPECIFICATION MCSpec
CONSTANTS
  Size = 5
  Burst = 3
  MaxBytes = 14
  NLibs = 2
  MaxId = 3
  MaxQueue = 2
  MaxCrashes = 1
  Desk = {d1, d2, d3}
  MaxCaptures = 3
  Monitors = 2
  MaxEvents = 3
INVARIANTS
  CaptureFollows
  CaptureForSessions
  PictureWhole
PROPERTIES
  SoundWhole
  DesktopAnswers
CHECK_DEADLOCK FALSE
