SPECIFICATION Spec
CONSTANTS
  MaxEpoch = 2
  MaxSequence = 2
  Torn = Torn
  Nothing = Nothing
  FallbackLevel = "snapshot"
  Checkpointed = {}
  CrashTearsFrame = TRUE
  TailSurvivesTakeover = TRUE
INVARIANTS
  AckedIsRecoverable
