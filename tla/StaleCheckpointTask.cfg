SPECIFICATION Spec
CONSTANTS
  Transactions = {t1, t2}
  Callers = {c1}
  Targets = {"wal", "snapshot"}
  FirstSequence = 0
  MaxSequence = 1
  NoRevision = NoRevision
  CheckpointBeforeWal = TRUE
INVARIANTS
  SnapshotWaiterIsScheduled
