SPECIFICATION FairSpec
CONSTANTS
  Transactions = {1, 2, 3}
  Callers = {c1, c2}
  Targets = {"wal", "snapshot"}
  FirstSequence = 0
  MaxSequence = 2
  NoRevision = NoRevision
  CheckpointBeforeWal = FALSE
INVARIANTS
  OneVolatileRevision
  WaiterHasWalWriter
  FailureIsTerminal
  SnapshotFailureIsCurrent
  ReleaseAfterWrites
  SnapshotWaiterIsScheduled
PROPERTIES
  ImplementsPromise
  EveryRequestSettles
  DisposeCompletes
CONSTRAINT
  Explored
