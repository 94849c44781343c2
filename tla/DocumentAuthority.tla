-------------------------- MODULE DocumentAuthority --------------------------
(***************************************************************************)
(* One instance of SingleDocumentAuthority: the process-local owner of one *)
(* document's mainline.  A commit is installed in memory at once; a WAL    *)
(* append and fsync, then on demand a Snapshot commit, make it durable     *)
(* later, and callers of whenDurable() wait for that.                      *)
(*                                                                         *)
(* JavaScript runs one synchronous turn at a time, so an action is what    *)
(* runs between two awaits: an API call up to its first await, or the      *)
(* continuation of a port call (wal.append, wal.fsync, snapshots.commit).  *)
(* Callers and ports interleave freely between actions.  The ports answer  *)
(* with any outcome their interface allows; DurableDocument.tla puts the   *)
(* storage that decides the outcome next to a coarser Authority.           *)
(*                                                                         *)
(* The mainline has no forks (checkWritable demands base = head), so a     *)
(* Revision is named by its sequence number.                               *)
(***************************************************************************)
EXTENDS Durability, FiniteSets

CONSTANTS
  Transactions,         \* the transaction identities clients may submit
  Callers,              \* concurrent whenDurable() requests
  Targets,              \* the levels they ask for
  FirstSequence,        \* sequence of the initial (recovered) Revision
  MaxSequence,          \* the last sequence number that is a safe integer
  NoRevision,           \* `undefined` where a Revision could stand
  CheckpointBeforeWal   \* may callers checkpoint() a memory-only Revision?

ASSUME SequenceAssumption ==
  /\ FirstSequence \in Nat
  /\ MaxSequence \in Nat
  /\ FirstSequence =< MaxSequence
ASSUME NoRevisionAssumption == NoRevision \notin Nat
ASSUME TargetsAssumption == Targets \subseteq Levels
ASSUME CheckpointAssumption == CheckpointBeforeWal \in BOOLEAN

VARIABLES
  head,             \* #headRevisionId
  durability,       \* #revisions: the sidecar level of every Revision
  transactionIds,   \* #transactionIds
  mode,             \* #mode
  leaseCurrent,     \* lease.isCurrent()
  pendingWal,       \* #pendingWalRevisionId
  walStage,         \* which port call #persistWal is waiting for
  walFailed,        \* keys of #terminalDurabilityFailures
  snapshotFailed,   \* keys of #snapshotFailures
  snapshotTask,     \* #snapshotTasks: its promise is running, or settled
                    \* and waiting for the microtask that deletes it
  waiter,           \* #waiters, seen from the caller that holds the promise
  disposal,         \* how far dispose() has come
  awaitedTasks      \* the Snapshot tasks whenIdle() captured and still awaits

commitVars   == <<head, transactionIds>>
walVars      == <<pendingWal, walStage, walFailed>>
snapshotVars == <<snapshotFailed, snapshotTask>>
disposalVars == <<disposal, awaitedTasks>>
vars == <<head, durability, transactionIds, mode, leaseCurrent, pendingWal,
          walStage, walFailed, snapshotFailed, snapshotTask, waiter,
          disposal, awaitedTasks>>

Revisions == FirstSequence..MaxSequence
Known == {r \in Revisions : durability[r] # Absent}

isDisposed == disposal # "live"

WaiterRecord ==
  [state    : {"idle", "waiting", "ok", "error"},
   revision : Revisions,
   target   : Levels,
   achieved : Levels \cup {Absent}]

TypeOK ==
  /\ head \in Revisions
  /\ durability \in [Revisions -> Levels \cup {Absent}]
  /\ transactionIds \subseteq Transactions
  /\ mode \in {"read-write", "read-only"}
  /\ leaseCurrent \in BOOLEAN
  /\ pendingWal \in Revisions \cup {NoRevision}
  /\ walStage \in {"idle", "append", "fsync"}
  /\ walFailed \subseteq Revisions
  /\ snapshotFailed \subseteq Revisions
  /\ snapshotTask \in [Revisions -> {"none", "running", "settled"}]
  /\ waiter \in [Callers -> WaiterRecord]
  /\ disposal \in {"live", "awaiting-wal", "awaiting-snapshots", "disposed"}
  /\ awaitedTasks \subseteq Revisions

-----------------------------------------------------------------------------
(* Waiters.  A waiter leaves the #waiters map in the turn that resolves    *)
(* its promise, so its state is the caller's view of that promise.         *)

Waits(w, r, targets) ==
  w.state = "waiting" /\ w.revision = r /\ w.target \in targets

(* Broken variant: the comparison of levels is turned round. *)
SatisfiedBy_Swapped(level) == {t \in Levels : isDurabilityAtLeast(t, level)}

(* The targets that reaching `level` satisfies. *)
SatisfiedBy(level) == {t \in Levels : isDurabilityAtLeast(level, t)}

resolveWaiters(ws, r, level) ==
  [c \in Callers |->
     IF Waits(ws[c], r, SatisfiedBy(level))
       THEN [ws[c] EXCEPT !.state = "ok", !.achieved = level]
       ELSE ws[c]]

rejectWaiters(ws, r, targets) ==
  [c \in Callers |->
     IF Waits(ws[c], r, targets) THEN [ws[c] EXCEPT !.state = "error"]
                                 ELSE ws[c]]

-----------------------------------------------------------------------------
(* The Snapshot path.  checkpoint(), whenDurable() and #promote() all end  *)
(* in #getOrStartCheckpoint(), which runs #checkpoint() up to its first    *)
(* await in the same turn.  `level` and `ws` are the Revision's durability *)
(* and the waiters at that point of the turn.                              *)

(* A task already in the map is returned as it is, settled or not. *)
JoinTask(r, ws) ==
  /\ snapshotTask[r] # "none"
  /\ waiter' = ws
  /\ UNCHANGED <<mode, snapshotFailed, snapshotTask>>

(* Unknown, still memory-only, or already at snapshot: answered at once. *)
AnswerCheckpoint(r, level, ws) ==
  /\ snapshotTask[r] = "none"
  /\ level # "wal"
  /\ snapshotTask' = [snapshotTask EXCEPT ![r] = "settled"]
  /\ waiter' = ws
  /\ UNCHANGED <<mode, snapshotFailed>>

RefuseCheckpointReadOnly(r, level, ws) ==
  /\ snapshotTask[r] = "none"
  /\ level = "wal"
  /\ mode # "read-write"
  /\ snapshotTask' = [snapshotTask EXCEPT ![r] = "settled"]
  /\ waiter' = rejectWaiters(ws, r, {"snapshot"})
  /\ UNCHANGED <<mode, snapshotFailed>>

RefuseCheckpointStaleLease(r, level, ws) ==
  /\ snapshotTask[r] = "none"
  /\ level = "wal"
  /\ mode = "read-write"
  /\ ~leaseCurrent
  /\ mode' = "read-only"
  /\ snapshotFailed' = snapshotFailed \cup {r}
  /\ snapshotTask' = [snapshotTask EXCEPT ![r] = "settled"]
  /\ waiter' = rejectWaiters(ws, r, {"snapshot"})

(* Broken variant: a retry leaves the failure it retries on record.        *)
StartCheckpoint_KeepsTheFailure(r, level, ws) ==
  /\ snapshotTask[r] = "none"
  /\ level = "wal"
  /\ mode = "read-write"
  /\ leaseCurrent
  /\ snapshotTask' = [snapshotTask EXCEPT ![r] = "running"]
  /\ waiter' = ws
  /\ UNCHANGED <<mode, snapshotFailed>>

StartCheckpoint(r, level, ws) ==
  /\ snapshotTask[r] = "none"
  /\ level = "wal"
  /\ mode = "read-write"
  /\ leaseCurrent
  /\ snapshotFailed' = snapshotFailed \ {r}
  /\ snapshotTask' = [snapshotTask EXCEPT ![r] = "running"]
  /\ waiter' = ws
  /\ UNCHANGED mode

getOrStartCheckpoint(r, level, ws) ==
  \/ JoinTask(r, ws)
  \/ AnswerCheckpoint(r, level, ws)
  \/ RefuseCheckpointReadOnly(r, level, ws)
  \/ RefuseCheckpointStaleLease(r, level, ws)
  \/ StartCheckpoint(r, level, ws)

NeedsSnapshot(r, level, ws) ==
  /\ level = "wal"
  /\ \E c \in Callers : Waits(ws[c], r, {"snapshot"})
  /\ r \notin snapshotFailed

scheduleSnapshotForWaiters(r, level, ws) ==
  \/ /\ NeedsSnapshot(r, level, ws)
     /\ getOrStartCheckpoint(r, level, ws)
  \/ /\ ~NeedsSnapshot(r, level, ws)
     /\ waiter' = ws
     /\ UNCHANGED <<mode, snapshotFailed, snapshotTask>>

-----------------------------------------------------------------------------
(* Commits. *)

(* Broken variant: a commit does not wait for the WAL of its parent.       *)
Apply_IgnoresPendingWal(t, base) ==
  /\ ~isDisposed
  /\ mode = "read-write"
  /\ leaseCurrent
  /\ base = head
  /\ t \notin transactionIds
  /\ head < MaxSequence
  /\ head' = head + 1
  /\ durability' = [durability EXCEPT ![head + 1] = "memory"]
  /\ transactionIds' = transactionIds \cup {t}
  /\ pendingWal' = head + 1
  /\ walStage' = "append"
  /\ UNCHANGED <<mode, leaseCurrent, walFailed, snapshotVars, waiter,
                 disposalVars>>

(* apply() and applyPrepared(): decode, check, prepare, validate and       *)
(* install run in one turn, ending with the call of wal.append.  Decoding, *)
(* kernel, validation and encoding errors return without a state change,   *)
(* as does a base that is not the head or a WAL still pending.             *)
Apply(t, base) ==
  /\ ~isDisposed
  /\ mode = "read-write"
  /\ leaseCurrent
  /\ pendingWal = NoRevision
  /\ base = head
  /\ t \notin transactionIds
  /\ head < MaxSequence
  /\ head' = head + 1
  /\ durability' = [durability EXCEPT ![head + 1] = "memory"]
  /\ transactionIds' = transactionIds \cup {t}
  /\ pendingWal' = head + 1
  /\ walStage' = "append"
  /\ UNCHANGED <<mode, leaseCurrent, walFailed, snapshotVars, waiter,
                 disposalVars>>

(* checkWritable() meets a lost lease. *)
ApplyFindsStaleLease ==
  /\ ~isDisposed
  /\ mode = "read-write"
  /\ ~leaseCurrent
  /\ mode' = "read-only"
  /\ UNCHANGED <<commitVars, durability, leaseCurrent, walVars, snapshotVars,
                 waiter, disposalVars>>

-----------------------------------------------------------------------------
(* #persistWal: the continuations of wal.append and wal.fsync. *)

AppendOk ==
  /\ walStage = "append"
  /\ walStage' = "fsync"
  /\ UNCHANGED <<commitVars, durability, mode, leaseCurrent, pendingWal,
                 walFailed, snapshotVars, waiter, disposalVars>>

(* Broken variant: the waiters for a Snapshot are forgotten.               *)
WalFails_OnlyWalWaiters ==
  /\ walStage \in {"append", "fsync"}
  /\ mode' = "read-only"
  /\ walFailed' = walFailed \cup {pendingWal}
  /\ waiter' = rejectWaiters(waiter, pendingWal, {"wal"})
  /\ pendingWal' = NoRevision
  /\ walStage' = "idle"
  /\ UNCHANGED <<commitVars, durability, leaseCurrent, snapshotVars,
                 disposalVars>>

(* Broken variant: the mode stays read-write.                              *)
WalFails_StaysWritable ==
  /\ walStage \in {"append", "fsync"}
  /\ walFailed' = walFailed \cup {pendingWal}
  /\ waiter' = rejectWaiters(waiter, pendingWal, {"wal", "snapshot"})
  /\ pendingWal' = NoRevision
  /\ walStage' = "idle"
  /\ UNCHANGED <<commitVars, durability, mode, leaseCurrent, snapshotVars,
                 disposalVars>>

(* #failWal *)
WalFails ==
  /\ walStage \in {"append", "fsync"}
  /\ mode' = "read-only"
  /\ walFailed' = walFailed \cup {pendingWal}
  /\ waiter' = rejectWaiters(waiter, pendingWal, {"wal", "snapshot"})
  /\ pendingWal' = NoRevision
  /\ walStage' = "idle"
  /\ UNCHANGED <<commitVars, durability, leaseCurrent, snapshotVars,
                 disposalVars>>

(* Broken variant: promotion to `wal` does not schedule the Snapshot path. *)
FsyncOk_SchedulesNothing ==
  /\ walStage = "fsync"
  /\ durability' = [durability EXCEPT ![pendingWal] = "wal"]
  /\ waiter' = resolveWaiters(waiter, pendingWal, "wal")
  /\ pendingWal' = NoRevision
  /\ walStage' = "idle"
  /\ UNCHANGED <<commitVars, mode, leaseCurrent, walFailed, snapshotVars,
                 disposalVars>>

(* #promote(revisionId, 'wal'), which may run #checkpoint() in its turn. *)
FsyncOk ==
  /\ walStage = "fsync"
  /\ durability' = [durability EXCEPT ![pendingWal] = "wal"]
  /\ scheduleSnapshotForWaiters(pendingWal, "wal",
                                resolveWaiters(waiter, pendingWal, "wal"))
  /\ pendingWal' = NoRevision
  /\ walStage' = "idle"
  /\ UNCHANGED <<commitVars, leaseCurrent, walFailed, disposalVars>>

-----------------------------------------------------------------------------
(* The continuation of snapshots.commit, and the clean-up microtask. *)

(* #promote(revisionId, 'snapshot') *)
SnapshotCommitted(r) ==
  /\ snapshotTask[r] = "running"
  /\ durability' = [durability EXCEPT ![r] = "snapshot"]
  /\ waiter' = resolveWaiters(waiter, r, "snapshot")
  /\ snapshotFailed' = snapshotFailed \ {r}
  /\ snapshotTask' = [snapshotTask EXCEPT ![r] = "settled"]
  /\ awaitedTasks' = awaitedTasks \ {r}
  /\ UNCHANGED <<commitVars, mode, leaseCurrent, walVars, disposal>>

(* Broken variant: the promise of a failed commit never settles. *)
SnapshotFails_Hangs(r, reason) ==
  /\ snapshotTask[r] = "running"
  /\ mode' = IF reason = "stale-fence" THEN "read-only" ELSE mode
  /\ snapshotFailed' = snapshotFailed \cup {r}
  /\ waiter' = rejectWaiters(waiter, r, {"snapshot"})
  /\ snapshotTask' = [snapshotTask EXCEPT ![r] = "settled"]
  /\ UNCHANGED <<commitVars, durability, leaseCurrent, walVars, disposalVars>>

SnapshotFails(r, reason) ==
  /\ snapshotTask[r] = "running"
  /\ mode' = IF reason = "stale-fence" THEN "read-only" ELSE mode
  /\ snapshotFailed' = snapshotFailed \cup {r}
  /\ waiter' = rejectWaiters(waiter, r, {"snapshot"})
  /\ snapshotTask' = [snapshotTask EXCEPT ![r] = "settled"]
  /\ awaitedTasks' = awaitedTasks \ {r}
  /\ UNCHANGED <<commitVars, durability, leaseCurrent, walVars, disposal>>

deleteSnapshotTask(r) ==
  /\ snapshotTask[r] = "settled"
  /\ snapshotTask' = [snapshotTask EXCEPT ![r] = "none"]
  /\ UNCHANGED <<commitVars, durability, mode, leaseCurrent, walVars,
                 snapshotFailed, waiter, disposalVars>>

-----------------------------------------------------------------------------
(* whenDurable() and checkpoint(). *)

Request(c, r, target, state, level) ==
  [waiter EXCEPT ![c] = [state |-> state, revision |-> r,
                         target |-> target, achieved |-> level]]

Reached(r, target) ==
  r \in Known /\ isDurabilityAtLeast(durability[r], target)

MustRefuse(r, target) ==
  \/ r \notin Known
  \/ r \in walFailed
  \/ target = "snapshot" /\ r \in snapshotFailed
  \/ mode # "read-write"

WhenDurableAnswered(c, r, target) ==
  /\ ~isDisposed
  /\ Reached(r, target)
  /\ waiter' = Request(c, r, target, "ok", durability[r])
  /\ UNCHANGED <<mode, snapshotVars>>

WhenDurableRefused(c, r, target) ==
  /\ isDisposed \/ (~Reached(r, target) /\ MustRefuse(r, target))
  /\ waiter' = Request(c, r, target, "error", Absent)
  /\ UNCHANGED <<mode, snapshotVars>>

WhenDurableWaits(c, r, target) ==
  /\ ~isDisposed
  /\ ~Reached(r, target)
  /\ ~MustRefuse(r, target)
  /\ scheduleSnapshotForWaiters(r, durability[r],
                                Request(c, r, target, "waiting", Absent))

(* A caller whose promise is settled may ask again. *)
WhenDurable(c, r, target) ==
  /\ waiter[c].state # "waiting"
  /\ \/ WhenDurableAnswered(c, r, target)
     \/ WhenDurableRefused(c, r, target)
     \/ WhenDurableWaits(c, r, target)
  /\ UNCHANGED <<commitVars, durability, leaseCurrent, walVars, disposalVars>>

Checkpoint(r) ==
  /\ ~isDisposed
  /\ CheckpointBeforeWal \/ durability[r] \in {"wal", "snapshot"}
  /\ getOrStartCheckpoint(r, durability[r], waiter)
  /\ UNCHANGED <<commitVars, durability, leaseCurrent, walVars, disposalVars>>

-----------------------------------------------------------------------------
(* Disposal, and losing the lease to its external holder. *)

(* #rejectUnstartedSnapshotWaitersOnDispose spares a Revision whose task   *)
(* is still in the map.                                                    *)
Dispose ==
  /\ ~isDisposed
  /\ disposal' = "awaiting-wal"
  /\ mode' = "read-only"
  /\ waiter' = [c \in Callers |->
                  IF \E r \in Revisions : /\ snapshotTask[r] = "none"
                                          /\ Waits(waiter[c], r, {"snapshot"})
                    THEN [waiter[c] EXCEPT !.state = "error"]
                    ELSE waiter[c]]
  /\ UNCHANGED <<commitVars, durability, leaseCurrent, walVars, snapshotVars,
                 awaitedTasks>>

(* Broken variant: whenIdle() does not wait for the Snapshot tasks. *)
AwaitSnapshots_OnlyWal ==
  /\ disposal = "awaiting-wal"
  /\ pendingWal = NoRevision
  /\ disposal' = "awaiting-snapshots"
  /\ awaitedTasks' = {}
  /\ UNCHANGED <<commitVars, durability, mode, leaseCurrent, walVars,
                 snapshotVars, waiter>>

(* whenIdle(): first the pending WAL task, then every Snapshot task that   *)
(* is in the map at that moment.                                           *)
AwaitSnapshots ==
  /\ disposal = "awaiting-wal"
  /\ pendingWal = NoRevision
  /\ disposal' = "awaiting-snapshots"
  /\ awaitedTasks' = {r \in Revisions : snapshotTask[r] = "running"}
  /\ UNCHANGED <<commitVars, durability, mode, leaseCurrent, walVars,
                 snapshotVars, waiter>>

FinishDispose ==
  /\ disposal = "awaiting-snapshots"
  /\ awaitedTasks = {}
  /\ disposal' = "disposed"
  /\ leaseCurrent' = FALSE
  /\ UNCHANGED <<commitVars, durability, mode, walVars, snapshotVars, waiter,
                 awaitedTasks>>

(* Whoever acquired the lease may release it under the Authority. *)
LoseLease ==
  /\ leaseCurrent
  /\ leaseCurrent' = FALSE
  /\ UNCHANGED <<commitVars, durability, mode, walVars, snapshotVars, waiter,
                 disposalVars>>

-----------------------------------------------------------------------------
Init ==
  /\ head = FirstSequence
  /\ \E level \in {"wal", "snapshot"} :
       durability = [r \in Revisions |->
                       IF r = FirstSequence THEN level ELSE Absent]
  /\ \E t \in Transactions : transactionIds = {t}
  /\ mode = "read-write"
  /\ leaseCurrent = TRUE
  /\ pendingWal = NoRevision
  /\ walStage = "idle"
  /\ walFailed = {}
  /\ snapshotFailed = {}
  /\ snapshotTask = [r \in Revisions |-> "none"]
  /\ waiter = [c \in Callers |->
                 [state |-> "idle", revision |-> FirstSequence,
                  target |-> "memory", achieved |-> Absent]]
  /\ disposal = "live"
  /\ awaitedTasks = {}

WalSettles == AppendOk \/ WalFails \/ FsyncOk

SnapshotSettles(r) ==
  \/ SnapshotCommitted(r)
  \/ \E reason \in {"io", "stale-fence"} : SnapshotFails(r, reason)

(* Turns the Authority owes: continuations of what it has already started. *)
Continuation ==
  \/ WalSettles
  \/ \E r \in Revisions : SnapshotSettles(r) \/ deleteSnapshotTask(r)
  \/ AwaitSnapshots
  \/ FinishDispose

(* Turns callers and the lease holder choose to take. *)
Environment ==
  \/ \E t \in Transactions, base \in Revisions : Apply(t, base)
  \/ ApplyFindsStaleLease
  \/ \E c \in Callers, r \in Revisions, target \in Targets :
       WhenDurable(c, r, target)
  \/ \E r \in Revisions : Checkpoint(r)
  \/ Dispose
  \/ LoseLease

Next == Continuation \/ Environment

Spec == Init /\ [][Next]_vars

(* Every promise the Authority awaits settles (the ports answer, the event *)
(* loop runs its queue).  Nobody is obliged to call anything.              *)
Fairness ==
  /\ WF_vars(WalSettles)
  /\ \A r \in Revisions :
       WF_vars(SnapshotSettles(r)) /\ WF_vars(deleteSnapshotTask(r))
  /\ WF_vars(AwaitSnapshots)
  /\ WF_vars(FinishDispose)

FairSpec == Spec /\ Fairness

-----------------------------------------------------------------------------
(* Safety. *)

(* ADR-010: at most one memory-only mainline Revision.  It is the head,    *)
(* and either its WAL write is under way or the Authority is sealed over   *)
(* its failure.  Apply, WalFails and FsyncOk keep this between them.       *)
OneVolatileRevision ==
  \A r \in Revisions :
    durability[r] = "memory" =>
      /\ r = head
      /\ r = pendingWal \/ (r \in walFailed /\ mode = "read-only")

(* A request that waits for a memory-only Revision waits for the WAL write *)
(* in flight, never for one that failed or finished without telling it.    *)
WaiterHasWalWriter ==
  \A c \in Callers :
    (waiter[c].state = "waiting" /\ durability[waiter[c].revision] # "wal")
      => waiter[c].revision = pendingWal

(* A terminal durability failure is terminal: whoever was told that a      *)
(* Revision failed can rely on this Authority never making it durable and  *)
(* never writing again.                                                    *)
FailureIsTerminal ==
  \A r \in walFailed :
    /\ durability[r] = "memory"
    /\ r = head
    /\ mode = "read-only"
    /\ walStage = "idle"

(* A failure kept in #snapshotFailures, which whenDurable() answers with,  *)
(* is never stale: its Revision is still at `wal` and no retry of its      *)
(* Snapshot is in flight, whoever retries, promotes or loses the lease in  *)
(* between.                                                                *)
SnapshotFailureIsCurrent ==
  \A r \in snapshotFailed :
    durability[r] = "wal" /\ snapshotTask[r] # "running"

(* dispose() gives the lease back only when no write it started can still  *)
(* reach storage and no caller still waits for the WAL.                    *)
ReleaseAfterWrites ==
  disposal = "disposed" =>
    /\ walStage = "idle"
    /\ \A r \in Revisions : snapshotTask[r] # "running"
    /\ \A c \in Callers : waiter[c].state = "waiting"
                            => waiter[c].target = "snapshot"

(* ADR-010: a whenDurable(revision, "snapshot") waiter must cause the      *)
(* Snapshot path to be scheduled once its Revision reaches `wal`.          *)
SnapshotWaiterIsScheduled ==
  \A c \in Callers :
    LET r == waiter[c].revision
    IN  (Waits(waiter[c], r, {"snapshot"}) /\ durability[r] = "wal")
          => snapshotTask[r] = "running"

(* Read-only is for good: head, transaction identities and mode are frozen *)
(* and no new append or Snapshot commit starts, although writes already    *)
(* started may finish.                                                     *)
Sealed ==
  mode = "read-only" =>
    /\ mode' = "read-only"
    /\ UNCHANGED commitVars
    /\ walStage' = "append" => walStage = "append"
    /\ \A r \in Revisions :
         snapshotTask'[r] = "running" => snapshotTask[r] = "running"

ReadOnlyIsFinal == [][Sealed]_vars

-----------------------------------------------------------------------------
(* Liveness, under FairSpec. *)

(* Every whenDurable() promise settles. *)
EveryRequestSettles ==
  \A c \in Callers : waiter[c].state = "waiting" ~> waiter[c].state # "waiting"

(* dispose() completes, whatever was in flight when it was called. *)
DisposeCompletes == isDisposed ~> disposal = "disposed"

-----------------------------------------------------------------------------
(* The Authority implements DurabilityPromise: a request is pending in one *)
(* when it is waiting in the other, and read-only is sealed.               *)
Promise == INSTANCE DurabilityPromise
             WITH promise <- waiter, sealed <- (mode = "read-only")

ImplementsPromise == Promise!PromiseSpec

=============================================================================
