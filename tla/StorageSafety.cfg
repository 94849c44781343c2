SPECIFICATION StorageSpec
CONSTANTS
  MaxEpoch = 3
  MaxSequence = 3
  Torn = Torn
  Nothing = Nothing
  FallbackLevel = "snapshot"
  Checkpointed = {1, 2}
  CrashTearsFrame = TRUE
  TailSurvivesTakeover = FALSE
  Sizes = {1, 3}
  MaxRecords = 3
  MaxPayloadLength = 6
  MaxCandidateOffsets = 12
  MaxChecksumLength = 12
INVARIANTS
  AckedIsRecoverable
  NoSplitBrain
  ManifestIsBacked
  RecordsAreWritten
  DamageIsNotATornTail
  TornTailIsTruncated
PROPERTIES
  RestartPointAdvances
CONSTRAINT
  Explored
CHECK_DEADLOCK FALSE
