CONSTANTS
  Loop = Loop
  Pipelines = {p1}
  Epoch = {e1}
  None = None
  Calls = {"status"}
SPECIFICATION LocksSpec
INVARIANTS
  NoWaitCycle
