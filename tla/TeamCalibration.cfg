SPECIFICATION Spec
CONSTANTS
  Track = {t1, t2, t3}
  MaxJob = 2
  MinTracks = 1
  MinSamples = 2
  MaxSamples = 2
INVARIANTS
  SamplesUnderLabel
  CertifiedBundle
PROPERTIES
  ProcessingEnds
CHECK_DEADLOCK FALSE
