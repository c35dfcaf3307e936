CONSTANTS
  NumCameras = 2
  SegmentTime = 2
  MaxLength = 2
  Window = 4
  MaxGap = 3
  MinAge = 1
  MaxAge = 4
  RestartDelay = 4
  RetryDelay = 10
  MaxRound = 1
  MaxWait = 0
  MaxTime = 11
  MaxCase = 1
  MaxFaults = 1
SPECIFICATION Spec
INVARIANTS
  FrozenKept
  PinsAccounted
  ReadyComplete
  SharedWindow
  StatusPromise
PROPERTIES
  PruneKeepsReady
  ExpiredGone
