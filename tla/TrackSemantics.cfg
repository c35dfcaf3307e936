SPECIFICATION SemanticsSpec
CONSTANTS
  Tracker = {t1, t2, t3}
  MaxEntity = 4
  Gap = 1
  Window = 2
  LostBuffer = 2
  MaxMissing = 3
  Interval = 2
SYMMETRY Symmetry
INVARIANTS
  Paired
  OverlayMatches
  InterruptionsSettled
  HistoryFollows
PROPERTIES
  LegalLifecycle
CHECK_DEADLOCK FALSE
