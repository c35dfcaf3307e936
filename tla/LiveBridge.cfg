CONSTANTS
  MaxFrame = 3
  Copies = 1
  MaxSamples = 2
  MaxPending = 1
  MaxWait = 1
  MaxDelta = 1
  NoPts = NoPts
  NoSource = NoSource
  MaxSize = 2
SPECIFICATION BridgeSpec
INVARIANTS
  EarlyMetadataJoined
  MetadataUsedOnce
  BoundedReordering
  BridgeConserved
PROPERTIES
  ConsumerEnds
  ImplementsMailbox
CHECK_DEADLOCK FALSE
