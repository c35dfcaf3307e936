CONSTANTS
  Loop = Loop
  Pipelines = {p1, p2}
  Epoch = {e1}
  None = None
  Calls = {"telemetry", "release", "metrics"}
SPECIFICATION LocksSpec
INVARIANTS
  NoWaitCycle
