CONSTANTS
  Session = {s1}
  MaxEpoch = 3
  Thread = {t1, t2}
  Loop = Loop
  NoKey = NoKey
  Faults = {"crash", "disk", "frame", "kill"}
SPECIFICATION Spec
SYMMETRY Symmetry
INVARIANTS
  SingleActiveEpoch
  LiveHasActiveEpoch
  SingleConsumer
PROPERTIES
  StaleReleaseHarmless
  ImplementsLease
