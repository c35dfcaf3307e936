CONSTANTS
  Session = {s1, s2}
  MaxEpoch = 1
  Thread = {t1, t2}
  Loop = Loop
  NoKey = NoKey
  Faults = {"frame", "kill"}
SPECIFICATION FairSpec
INVARIANTS
  ActiveHasRuntime
PROPERTIES
  EndedEpochReleased
