SPECIFICATION Spec
CONSTANTS
  Source = {f1}
  NoSource = none
  MaxPipe = 2
  MaxThread = 2
INVARIANTS
  NoOrphanSource
  OneReader
  RecordedOnce
  StopSticks
PROPERTIES
  StoppedEnds
CHECK_DEADLOCK FALSE
