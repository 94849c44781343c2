SPECIFICATION FairSpec
CONSTANTS
  Calls = {c1, c2}
  MaxRevision = 3
  Nothing = Nothing
INVARIANTS
  HeadIsReadable
  CommitIsVisible
PROPERTIES
  HeadNeverRegresses
  CatchesUp
  PromisesSettle
CHECK_DEADLOCK FALSE
