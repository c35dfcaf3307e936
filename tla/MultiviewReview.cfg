CONSTANTS
  Reviewer = {"chief", "fourth"}
  Edits <- MCEdits
  Ids <- MCIds
  Start <- MCStart
  Verdicts <- MCVerdicts
  Foreign <- MCForeign
  MaxChanges = 1
  MaxLag = 1
SPECIFICATION Spec
INVARIANTS
  WarningsMatchAnalysis
  CardAtLeastFloor
PROPERTIES
  NoLostUpdate
  CompleteIsFinal
CHECK_DEADLOCK FALSE
