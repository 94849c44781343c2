----------------------- MODULE DocumentAuthorityProofs -----------------------
(***************************************************************************)
(* Theorems about DocumentAuthority, for every choice of its constants:    *)
(* the safety properties of its run, and that it implements                *)
(* DurabilityPromise.                                                      *)
(*                                                                         *)
(* None of the properties is inductive by itself.  IInv adds what they     *)
(* lean on: where on the line each level can be, which write each volatile *)
(* Revision and each waiter depends on, and what dispose() has seen.       *)
(***************************************************************************)
EXTENDS DocumentAuthority, TLAPS

(* Only Revisions up to the head exist, and the head does. *)
LineUpToHead ==
  \A r \in Revisions : durability[r] # Absent <=> r =< head

(* #pendingWalRevisionId is set exactly while #persistWal runs, and names  *)
(* the memory-only head.                                                   *)
PendingWalIsHead ==
  /\ walStage = "idle" <=> pendingWal = NoRevision
  /\ pendingWal # NoRevision =>
       pendingWal = head /\ durability[head] = "memory" /\ head \notin walFailed

(* A Snapshot commit runs only for a Revision at `wal`. *)
TaskIsAtWal ==
  \A r \in Revisions : snapshotTask[r] = "running" => durability[r] = "wal"

(* A waiting caller has not got its level yet. *)
WaiterIsUnsatisfied ==
  \A c \in Callers :
    waiter[c].state = "waiting" =>
      /\ durability[waiter[c].revision] \in {"memory", "wal"}
      /\ ~isDurabilityAtLeast(durability[waiter[c].revision], waiter[c].target)

(* What each phase of dispose() has waited for. *)
DisposalPhases ==
  /\ isDisposed => mode = "read-only"
  /\ disposal \in {"live", "awaiting-wal"} => awaitedTasks = {}
  /\ disposal \in {"awaiting-snapshots", "disposed"} =>
       /\ pendingWal = NoRevision
       /\ \A r \in Revisions : snapshotTask[r] = "running" => r \in awaitedTasks
  /\ disposal = "disposed" => awaitedTasks = {}

IInv ==
  /\ TypeOK
  /\ LineUpToHead
  /\ PendingWalIsHead
  /\ OneVolatileRevision
  /\ FailureIsTerminal
  /\ TaskIsAtWal
  /\ SnapshotFailureIsCurrent
  /\ WaiterIsUnsatisfied
  /\ WaiterHasWalWriter
  /\ DisposalPhases

-----------------------------------------------------------------------------
(* Lemmas about the operators. *)

(* durabilityRank orders the three levels. *)
LEMMA LevelOrder ==
  \A a, b \in Levels :
    isDurabilityAtLeast(a, b) <=> (a = b \/ b = "memory" \/ a = "snapshot")
BY DEF Levels, isDurabilityAtLeast, durabilityRank

(* What reaching a level satisfies. *)
LEMMA SatisfiedSets ==
  /\ SatisfiedBy("wal") = {"memory", "wal"}
  /\ SatisfiedBy("snapshot") = Levels
BY LevelOrder DEF SatisfiedBy, Levels

(* rejectWaiters touches exactly the waiters it is told to. *)
LEMMA RejectFacts ==
  ASSUME NEW ws \in [Callers -> WaiterRecord], NEW r, NEW T
  PROVE  /\ rejectWaiters(ws, r, T) \in [Callers -> WaiterRecord]
         /\ \A c \in Callers :
              \/ ~Waits(ws[c], r, T) /\ rejectWaiters(ws, r, T)[c] = ws[c]
              \/ /\ Waits(ws[c], r, T)
                 /\ rejectWaiters(ws, r, T)[c]
                      = [ws[c] EXCEPT !.state = "error"]
         /\ \A c \in Callers :
              rejectWaiters(ws, r, T)[c].state = "waiting" =>
                rejectWaiters(ws, r, T)[c] = ws[c] /\ ~Waits(ws[c], r, T)
BY DEF rejectWaiters, WaiterRecord

(* resolveWaiters touches exactly the waiters the level satisfies. *)
LEMMA ResolveFacts ==
  ASSUME NEW ws \in [Callers -> WaiterRecord], NEW r, NEW level \in Levels
  PROVE  /\ resolveWaiters(ws, r, level) \in [Callers -> WaiterRecord]
         /\ \A c \in Callers :
              \/ /\ ~Waits(ws[c], r, SatisfiedBy(level))
                 /\ resolveWaiters(ws, r, level)[c] = ws[c]
              \/ /\ Waits(ws[c], r, SatisfiedBy(level))
                 /\ resolveWaiters(ws, r, level)[c]
                      = [ws[c] EXCEPT !.state = "ok", !.achieved = level]
         /\ \A c \in Callers :
              resolveWaiters(ws, r, level)[c].state = "waiting" =>
                /\ resolveWaiters(ws, r, level)[c] = ws[c]
                /\ ~Waits(ws[c], r, SatisfiedBy(level))
BY DEF resolveWaiters, WaiterRecord

(* What a call that may end in #getOrStartCheckpoint can do to the state.  *)
SnapshotPathEffect(r, level, ws) ==
  /\ mode' \in {"read-write", "read-only"}
  /\ mode = "read-only" => mode' = "read-only"
  /\ waiter' \in {ws, rejectWaiters(ws, r, {"snapshot"})}
  /\ snapshotTask' \in [Revisions -> {"none", "running", "settled"}]
  /\ \A q \in Revisions :
       snapshotTask'[q] = "running" =>
         \/ snapshotTask[q] = "running"
         \/ q = r /\ level = "wal" /\ mode = "read-write"
  /\ snapshotFailed' \subseteq Revisions
  /\ \A q \in snapshotFailed' :
       \/ q \in snapshotFailed /\ snapshotTask'[q] = snapshotTask[q]
       \/ q \in snapshotFailed /\ snapshotTask'[q] # "running"
       \/ q = r /\ level = "wal" /\ snapshotTask'[q] # "running"

(* So does a checkpoint, whichever of its early returns it takes. *)
LEMMA CheckpointEffect ==
  ASSUME TypeOK, NEW r \in Revisions, NEW level, NEW ws,
         getOrStartCheckpoint(r, level, ws)
  PROVE  SnapshotPathEffect(r, level, ws)
<1> USE DEF TypeOK, SnapshotPathEffect
<1>1. CASE JoinTask(r, ws)
  BY <1>1 DEF JoinTask
<1>2. CASE AnswerCheckpoint(r, level, ws)
  BY <1>2 DEF AnswerCheckpoint
<1>3. CASE RefuseCheckpointReadOnly(r, level, ws)
  BY <1>3 DEF RefuseCheckpointReadOnly
<1>4. CASE RefuseCheckpointStaleLease(r, level, ws)
  BY <1>4 DEF RefuseCheckpointStaleLease
<1>5. CASE StartCheckpoint(r, level, ws)
  BY <1>5 DEF StartCheckpoint
<1> QED BY <1>1, <1>2, <1>3, <1>4, <1>5 DEF getOrStartCheckpoint

(* So does scheduling a Snapshot for those who wait for one. *)
LEMMA ScheduleEffect ==
  ASSUME TypeOK, NEW r \in Revisions, NEW level, NEW ws,
         scheduleSnapshotForWaiters(r, level, ws)
  PROVE  SnapshotPathEffect(r, level, ws)
<1>1. CASE getOrStartCheckpoint(r, level, ws)
  BY <1>1, CheckpointEffect
<1>2. CASE waiter' = ws /\ UNCHANGED <<mode, snapshotFailed, snapshotTask>>
  BY <1>2 DEF TypeOK, SnapshotPathEffect
<1> QED BY <1>1, <1>2 DEF scheduleSnapshotForWaiters

-----------------------------------------------------------------------------
(* The inductive invariant. *)

(* The invariant holds when an Authority is opened. *)
LEMMA InitEstablishesIInv == Init => IInv
<1> SUFFICES ASSUME Init PROVE IInv
  OBVIOUS
<1> USE SequenceAssumption, NoRevisionAssumption
<1>1. TypeOK
  BY DEF Init, TypeOK, Revisions, Levels, Absent, WaiterRecord
<1>2. LineUpToHead /\ PendingWalIsHead
  BY DEF Init, LineUpToHead, PendingWalIsHead, Revisions, Absent
<1>3. OneVolatileRevision /\ FailureIsTerminal /\ TaskIsAtWal
      /\ SnapshotFailureIsCurrent
  BY DEF Init, OneVolatileRevision, FailureIsTerminal, TaskIsAtWal,
         SnapshotFailureIsCurrent, Absent
<1>4. WaiterIsUnsatisfied /\ WaiterHasWalWriter
  BY DEF Init, WaiterIsUnsatisfied, WaiterHasWalWriter
<1>5. DisposalPhases
  BY DEF Init, DisposalPhases, isDisposed
<1> QED BY <1>1, <1>2, <1>3, <1>4, <1>5 DEF IInv

(* A commit keeps it: the head was durable, so the new Revision is the only volatile one. *)
LEMMA ApplyKeepsIInv ==
  ASSUME IInv, NEW t \in Transactions, NEW base \in Revisions, Apply(t, base)
  PROVE  IInv'
<1> USE SequenceAssumption, NoRevisionAssumption DEF Apply, commitVars,
        walVars, snapshotVars, disposalVars, IInv
<1>0. TypeOK OBVIOUS
<1>1. head + 1 \in Revisions /\ head + 1 # NoRevision /\ head # head + 1
  BY <1>0 DEF TypeOK, Revisions
<1>2. TypeOK'
  BY <1>0, <1>1 DEF TypeOK, Levels
<1>3. durability[head] \in {"wal", "snapshot"} /\ durability[head + 1] = Absent
  BY <1>0, <1>1, LevelOrder DEF TypeOK, OneVolatileRevision, LineUpToHead,
     Levels, Absent, Revisions
<1>4. LineUpToHead'
  BY <1>0, <1>1 DEF TypeOK, LineUpToHead, Revisions, Absent
<1>5. walFailed = {}
  BY <1>0 DEF FailureIsTerminal, TypeOK
<1>6. PendingWalIsHead' /\ OneVolatileRevision' /\ FailureIsTerminal'
  BY <1>0, <1>1, <1>3, <1>5 DEF TypeOK, PendingWalIsHead, OneVolatileRevision,
     FailureIsTerminal, Revisions, Absent
<1>7. TaskIsAtWal' /\ SnapshotFailureIsCurrent'
  BY <1>0, <1>1, <1>3 DEF TypeOK, TaskIsAtWal, SnapshotFailureIsCurrent,
     Absent, Revisions
<1>8. WaiterIsUnsatisfied' /\ WaiterHasWalWriter'
  <2> SUFFICES ASSUME NEW c \in Callers, waiter[c].state = "waiting"
               PROVE  /\ durability'[waiter[c].revision] \in {"memory", "wal"}
                      /\ ~isDurabilityAtLeast(durability'[waiter[c].revision],
                                              waiter[c].target)
                      /\ durability'[waiter[c].revision] # "wal"
                           => waiter[c].revision = pendingWal'
    BY DEF WaiterIsUnsatisfied, WaiterHasWalWriter
  <2>1. waiter[c].revision \in Revisions
    BY <1>0 DEF TypeOK, WaiterRecord
  <2>2. durability[waiter[c].revision] = "wal"
    BY <2>1 DEF WaiterIsUnsatisfied, WaiterHasWalWriter, Revisions
  <2>3. durability'[waiter[c].revision] = "wal"
    BY <2>1, <2>2, <1>0, <1>3 DEF TypeOK, Absent
  <2> QED BY <2>2, <2>3 DEF WaiterIsUnsatisfied
<1>9. DisposalPhases'
  BY DEF DisposalPhases, isDisposed
<1> QED BY <1>2, <1>4, <1>6, <1>7, <1>8, <1>9

(* An append that succeeds changes no Revision. *)
LEMMA AppendOkKeepsIInv == IInv /\ AppendOk => IInv'
<1> SUFFICES ASSUME IInv, AppendOk PROVE IInv'
  OBVIOUS
<1> USE DEF AppendOk, commitVars, walVars, snapshotVars, disposalVars, IInv
<1>1. TypeOK' /\ LineUpToHead' /\ PendingWalIsHead' /\ OneVolatileRevision'
  BY DEF TypeOK, LineUpToHead, PendingWalIsHead, OneVolatileRevision
<1>2. FailureIsTerminal'
  BY DEF FailureIsTerminal, PendingWalIsHead, TypeOK
<1>3. TaskIsAtWal' /\ SnapshotFailureIsCurrent'
  BY DEF TaskIsAtWal, SnapshotFailureIsCurrent
<1>4. WaiterIsUnsatisfied' /\ WaiterHasWalWriter' /\ DisposalPhases'
  BY DEF WaiterIsUnsatisfied, WaiterHasWalWriter, DisposalPhases, isDisposed
<1> QED BY <1>1, <1>2, <1>3, <1>4

(* A WAL write that fails ends the Authority's writing. *)
LEMMA WalFailsKeepsIInv == IInv /\ WalFails => IInv'
<1> SUFFICES ASSUME IInv, WalFails PROVE IInv'
  OBVIOUS
<1> USE DEF WalFails, commitVars, walVars, snapshotVars, disposalVars, IInv
<1> USE NoRevisionAssumption
<1>0. TypeOK OBVIOUS
<1>1. /\ pendingWal = head
      /\ durability[head] = "memory"
      /\ pendingWal \in Revisions
  BY <1>0 DEF PendingWalIsHead, TypeOK
<1>2. /\ waiter' \in [Callers -> WaiterRecord]
      /\ \A c \in Callers :
           \/ /\ ~Waits(waiter[c], pendingWal, {"wal", "snapshot"})
              /\ waiter'[c] = waiter[c]
           \/ waiter'[c] = [waiter[c] EXCEPT !.state = "error"]
  BY <1>0, RejectFacts DEF TypeOK
<1>3. TypeOK'
  BY <1>0, <1>1, <1>2 DEF TypeOK
<1>4. LineUpToHead' /\ PendingWalIsHead' /\ OneVolatileRevision'
  BY <1>0, <1>1 DEF LineUpToHead, PendingWalIsHead, OneVolatileRevision, TypeOK
<1>5. FailureIsTerminal' /\ TaskIsAtWal' /\ SnapshotFailureIsCurrent'
  BY <1>1 DEF FailureIsTerminal, TaskIsAtWal, SnapshotFailureIsCurrent
<1>6. WaiterIsUnsatisfied' /\ WaiterHasWalWriter'
  <2> SUFFICES ASSUME NEW c \in Callers, waiter'[c].state = "waiting"
               PROVE  /\ durability[waiter'[c].revision] \in {"memory", "wal"}
                      /\ ~isDurabilityAtLeast(durability[waiter'[c].revision],
                                              waiter'[c].target)
                      /\ durability[waiter'[c].revision] = "wal"
    BY DEF WaiterIsUnsatisfied, WaiterHasWalWriter
  <2>1. waiter'[c] = waiter[c] /\ ~Waits(waiter[c], pendingWal, {"wal", "snapshot"})
    BY <1>0, <1>2 DEF TypeOK, WaiterRecord
  <2>2. waiter[c].target \in {"wal", "snapshot"}
    BY <1>0, <2>1, LevelOrder DEF TypeOK, WaiterRecord, WaiterIsUnsatisfied, Levels
  <2>3. waiter[c].revision # pendingWal
    BY <2>1, <2>2 DEF Waits
  <2> QED
    BY <2>1, <2>3 DEF WaiterIsUnsatisfied, WaiterHasWalWriter
<1>7. DisposalPhases'
  BY DEF DisposalPhases, isDisposed
<1> QED BY <1>3, <1>4, <1>5, <1>6, <1>7

(* An fsync makes the head durable and serves those who wait for it. *)
LEMMA FsyncOkKeepsIInv == IInv /\ FsyncOk => IInv'
<1> SUFFICES ASSUME IInv, FsyncOk PROVE IInv'
  OBVIOUS
<1> DEFINE ws == resolveWaiters(waiter, pendingWal, "wal")
<1> USE NoRevisionAssumption
        DEF FsyncOk, commitVars, walVars, disposalVars, IInv
<1>0. TypeOK OBVIOUS
<1>1. /\ pendingWal = head
      /\ pendingWal # NoRevision
      /\ durability[head] = "memory"
      /\ head \notin walFailed
      /\ pendingWal \in Revisions
  BY <1>0 DEF PendingWalIsHead, TypeOK
<1>2. SnapshotPathEffect(pendingWal, "wal", ws)
  BY <1>0, <1>1, ScheduleEffect
<1>3. /\ ws \in [Callers -> WaiterRecord]
      /\ \A c \in Callers :
           ws[c].state = "waiting" =>
             ws[c] = waiter[c] /\ ~Waits(waiter[c], pendingWal, {"memory", "wal"})
  <2>1. waiter \in [Callers -> WaiterRecord] /\ "wal" \in Levels
    BY <1>0 DEF TypeOK, Levels
  <2>2. /\ ws \in [Callers -> WaiterRecord]
        /\ \A c \in Callers :
             ws[c].state = "waiting" =>
               ws[c] = waiter[c] /\ ~Waits(waiter[c], pendingWal, SatisfiedBy("wal"))
    BY <2>1, ResolveFacts
  <2> QED BY <2>2, SatisfiedSets
<1>4. /\ waiter' \in [Callers -> WaiterRecord]
      /\ \A c \in Callers :
           waiter'[c].state = "waiting" => waiter'[c] = ws[c]
  <2>1. /\ rejectWaiters(ws, pendingWal, {"snapshot"}) \in [Callers -> WaiterRecord]
        /\ \A c \in Callers :
             rejectWaiters(ws, pendingWal, {"snapshot"})[c].state = "waiting" =>
               rejectWaiters(ws, pendingWal, {"snapshot"})[c] = ws[c]
    BY <1>3, RejectFacts
  <2> QED BY <1>2, <1>3, <2>1 DEF SnapshotPathEffect
<1> HIDE DEF ws
<1>5. /\ durability' \in [Revisions -> Levels \cup {Absent}]
      /\ durability'[head] = "wal"
      /\ \A r \in Revisions : r # head => durability'[r] = durability[r]
  BY <1>0, <1>1 DEF TypeOK, Levels
<1>6. TypeOK'
  BY <1>0, <1>2, <1>4, <1>5 DEF TypeOK, SnapshotPathEffect
<1>7. LineUpToHead' /\ PendingWalIsHead' /\ OneVolatileRevision'
  BY <1>0, <1>1, <1>5 DEF TypeOK, LineUpToHead, PendingWalIsHead,
     OneVolatileRevision, Absent
<1>8. FailureIsTerminal'
  BY <1>0, <1>1 DEF TypeOK, FailureIsTerminal
<1>9. TaskIsAtWal' /\ SnapshotFailureIsCurrent'
  BY <1>0, <1>1, <1>2, <1>5 DEF TypeOK, TaskIsAtWal, SnapshotFailureIsCurrent,
     SnapshotPathEffect
<1>10. WaiterIsUnsatisfied' /\ WaiterHasWalWriter'
  <2> SUFFICES ASSUME NEW c \in Callers, waiter'[c].state = "waiting"
               PROVE  /\ durability'[waiter'[c].revision] = "wal"
                      /\ ~isDurabilityAtLeast("wal", waiter'[c].target)
    BY DEF WaiterIsUnsatisfied, WaiterHasWalWriter
  <2>1. /\ waiter'[c] = waiter[c]
        /\ ~Waits(waiter[c], pendingWal, {"memory", "wal"})
    BY <1>3, <1>4
  <2>2. CASE waiter[c].revision = pendingWal
    <3>1. waiter[c].target = "snapshot"
      BY <1>0, <2>1, <2>2 DEF TypeOK, WaiterRecord, Waits, Levels
    <3> QED BY <3>1, <2>1, <2>2, <1>1, <1>5, LevelOrder DEF Levels
  <2>3. CASE waiter[c].revision # pendingWal
    <3>1. waiter[c].revision \in Revisions
      BY <1>0 DEF TypeOK, WaiterRecord
    <3> QED
      BY <3>1, <2>1, <2>3, <1>1, <1>5 DEF WaiterIsUnsatisfied, WaiterHasWalWriter
  <2> QED BY <2>2, <2>3
<1>11. DisposalPhases'
  BY <1>0, <1>1, <1>2 DEF TypeOK, DisposalPhases, isDisposed, SnapshotPathEffect
<1> QED BY <1>6, <1>7, <1>8, <1>9, <1>10, <1>11

(* A Snapshot commit promotes a Revision that is durable. *)
LEMMA SnapshotCommittedKeepsIInv ==
  ASSUME IInv, NEW r \in Revisions, SnapshotCommitted(r)
  PROVE  IInv'
<1> USE DEF SnapshotCommitted, commitVars, walVars, IInv
<1>0. TypeOK OBVIOUS
<1>1. /\ durability[r] = "wal"
      /\ r # pendingWal
      /\ r \notin walFailed
  BY <1>0, NoRevisionAssumption, SequenceAssumption
     DEF TaskIsAtWal, PendingWalIsHead, FailureIsTerminal, TypeOK, Revisions
<1>2. /\ waiter' \in [Callers -> WaiterRecord]
      /\ \A c \in Callers :
           waiter'[c].state = "waiting" =>
             waiter'[c] = waiter[c] /\ ~Waits(waiter[c], r, Levels)
  <2>1. waiter \in [Callers -> WaiterRecord] /\ "snapshot" \in Levels
    BY <1>0 DEF TypeOK, Levels
  <2> DEFINE ws == resolveWaiters(waiter, r, "snapshot")
  <2>2. /\ ws \in [Callers -> WaiterRecord]
        /\ \A c \in Callers :
             ws[c].state = "waiting" =>
               ws[c] = waiter[c] /\ ~Waits(waiter[c], r, SatisfiedBy("snapshot"))
    BY <2>1, ResolveFacts
  <2>3. waiter' = ws
    OBVIOUS
  <2> QED BY <2>2, <2>3, SatisfiedSets
<1>3. /\ durability' \in [Revisions -> Levels \cup {Absent}]
      /\ durability'[r] = "snapshot"
      /\ \A q \in Revisions : q # r => durability'[q] = durability[q]
  BY <1>0 DEF TypeOK, Levels
<1>4. /\ snapshotTask' \in [Revisions -> {"none", "running", "settled"}]
      /\ snapshotTask'[r] = "settled"
      /\ \A q \in Revisions : q # r => snapshotTask'[q] = snapshotTask[q]
  BY <1>0 DEF TypeOK
<1>5. TypeOK'
  BY <1>0, <1>2, <1>3, <1>4 DEF TypeOK
<1>6. LineUpToHead' /\ OneVolatileRevision' /\ FailureIsTerminal'
  BY <1>0, <1>1, <1>3 DEF TypeOK, LineUpToHead, OneVolatileRevision,
     FailureIsTerminal, Absent
<1>7. PendingWalIsHead'
  BY <1>0, <1>1, <1>3 DEF TypeOK, PendingWalIsHead
<1>8. TaskIsAtWal' /\ SnapshotFailureIsCurrent'
  BY <1>0, <1>3, <1>4 DEF TypeOK, TaskIsAtWal, SnapshotFailureIsCurrent
<1>9. WaiterIsUnsatisfied' /\ WaiterHasWalWriter'
  <2> SUFFICES ASSUME NEW c \in Callers, waiter'[c].state = "waiting"
               PROVE  /\ waiter'[c] = waiter[c]
                      /\ durability'[waiter[c].revision]
                           = durability[waiter[c].revision]
    BY DEF WaiterIsUnsatisfied, WaiterHasWalWriter
  <2>1. waiter'[c] = waiter[c] /\ waiter[c].revision # r
    BY <1>0, <1>2 DEF TypeOK, WaiterRecord, Waits
  <2> QED BY <1>0, <1>3, <2>1 DEF TypeOK, WaiterRecord
<1>10. DisposalPhases'
  BY <1>0, <1>4 DEF TypeOK, DisposalPhases, isDisposed
<1> QED BY <1>5, <1>6, <1>7, <1>8, <1>9, <1>10

(* A Snapshot failure is recorded for a Revision that is still at wal. *)
LEMMA SnapshotFailsKeepsIInv ==
  ASSUME IInv, NEW r \in Revisions, NEW reason, SnapshotFails(r, reason)
  PROVE  IInv'
<1> USE DEF SnapshotFails, commitVars, walVars, IInv
<1>0. TypeOK OBVIOUS
<1>1. durability[r] = "wal"
  BY DEF TaskIsAtWal
<1>2. /\ waiter' \in [Callers -> WaiterRecord]
      /\ \A c \in Callers :
           waiter'[c].state = "waiting" => waiter'[c] = waiter[c]
  <2>1. waiter \in [Callers -> WaiterRecord]
    BY <1>0 DEF TypeOK
  <2> QED BY <2>1, RejectFacts
<1>3. mode' \in {"read-write", "read-only"} /\ (mode = "read-only" => mode' = mode)
  BY <1>0 DEF TypeOK
<1>4. /\ snapshotTask' \in [Revisions -> {"none", "running", "settled"}]
      /\ snapshotTask'[r] = "settled"
      /\ \A q \in Revisions : q # r => snapshotTask'[q] = snapshotTask[q]
  BY <1>0 DEF TypeOK
<1>5. TypeOK'
  BY <1>0, <1>2, <1>3, <1>4 DEF TypeOK
<1>6. /\ LineUpToHead' /\ PendingWalIsHead'
      /\ OneVolatileRevision' /\ FailureIsTerminal'
  BY <1>3 DEF LineUpToHead, PendingWalIsHead, OneVolatileRevision,
     FailureIsTerminal
<1>7. TaskIsAtWal' /\ SnapshotFailureIsCurrent'
  BY <1>0, <1>1, <1>4 DEF TypeOK, TaskIsAtWal, SnapshotFailureIsCurrent
<1>8. WaiterIsUnsatisfied' /\ WaiterHasWalWriter'
  BY <1>2 DEF WaiterIsUnsatisfied, WaiterHasWalWriter
<1>9. DisposalPhases'
  BY <1>0, <1>3, <1>4 DEF TypeOK, DisposalPhases, isDisposed
<1> QED BY <1>5, <1>6, <1>7, <1>8, <1>9

(* A call on the Snapshot path that leaves every level alone: checkpoint() *)
(* and the whenDurable() that registers a waiter.                          *)
LEMMA SnapshotPathKeepsIInv ==
  ASSUME IInv, ~isDisposed, NEW r \in Revisions,
         NEW ws \in [Callers -> WaiterRecord],
         \A c \in Callers :
           ws[c].state = "waiting" =>
             /\ durability[ws[c].revision] \in {"memory", "wal"}
             /\ ~isDurabilityAtLeast(durability[ws[c].revision], ws[c].target)
             /\ durability[ws[c].revision] # "wal" => ws[c].revision = pendingWal,
         SnapshotPathEffect(r, durability[r], ws),
         UNCHANGED <<commitVars, durability, leaseCurrent, walVars, disposalVars>>
  PROVE  IInv'
<1> USE DEF commitVars, walVars, disposalVars, IInv
<1>0. TypeOK OBVIOUS
<1>1. /\ waiter' \in [Callers -> WaiterRecord]
      /\ \A c \in Callers :
           waiter'[c].state = "waiting" => waiter'[c] = ws[c]
  <2>1. /\ rejectWaiters(ws, r, {"snapshot"}) \in [Callers -> WaiterRecord]
        /\ \A c \in Callers :
             rejectWaiters(ws, r, {"snapshot"})[c].state = "waiting" =>
               rejectWaiters(ws, r, {"snapshot"})[c] = ws[c]
    BY RejectFacts
  <2> QED BY <2>1 DEF SnapshotPathEffect
<1>2. TypeOK'
  BY <1>0, <1>1 DEF TypeOK, SnapshotPathEffect
<1>3. /\ LineUpToHead' /\ PendingWalIsHead'
      /\ OneVolatileRevision' /\ FailureIsTerminal'
  BY <1>0 DEF TypeOK, LineUpToHead, PendingWalIsHead, OneVolatileRevision,
     FailureIsTerminal, SnapshotPathEffect
<1>4. TaskIsAtWal' /\ SnapshotFailureIsCurrent'
  BY <1>0 DEF TypeOK, TaskIsAtWal, SnapshotFailureIsCurrent, SnapshotPathEffect
<1>5. WaiterIsUnsatisfied' /\ WaiterHasWalWriter'
  BY <1>1 DEF WaiterIsUnsatisfied, WaiterHasWalWriter
<1>6. DisposalPhases'
  BY DEF DisposalPhases, isDisposed
<1> QED BY <1>2, <1>3, <1>4, <1>5, <1>6

(* A checkpoint keeps the invariant. *)
LEMMA CheckpointKeepsIInv ==
  ASSUME IInv, NEW r \in Revisions, Checkpoint(r)
  PROVE  IInv'
<1>1. TypeOK /\ waiter \in [Callers -> WaiterRecord]
  BY DEF IInv, TypeOK
<1>2. SnapshotPathEffect(r, durability[r], waiter)
  BY <1>1, CheckpointEffect DEF Checkpoint
<1>3. \A c \in Callers :
        waiter[c].state = "waiting" =>
          /\ durability[waiter[c].revision] \in {"memory", "wal"}
          /\ ~isDurabilityAtLeast(durability[waiter[c].revision], waiter[c].target)
          /\ durability[waiter[c].revision] # "wal"
               => waiter[c].revision = pendingWal
  BY DEF IInv, WaiterIsUnsatisfied, WaiterHasWalWriter
<1>4. ~isDisposed /\ UNCHANGED <<commitVars, durability, leaseCurrent, walVars,
                                 disposalVars>>
  BY DEF Checkpoint
<1> QED BY <1>1, <1>2, <1>3, <1>4, SnapshotPathKeepsIInv

(* What a new request record can be. *)
LEMMA RequestFacts ==
  ASSUME waiter \in [Callers -> WaiterRecord], NEW c \in Callers,
         NEW r \in Revisions, NEW target \in Levels,
         NEW state \in {"waiting", "ok", "error"},
         NEW level \in Levels \cup {Absent}
  PROVE  /\ Request(c, r, target, state, level) \in [Callers -> WaiterRecord]
         /\ Request(c, r, target, state, level)[c]
              = [state |-> state, revision |-> r, target |-> target,
                 achieved |-> level]
         /\ \A d \in Callers :
              d # c => Request(c, r, target, state, level)[d] = waiter[d]
BY DEF Request, WaiterRecord

(* An answered request changes nothing but the caller's own record. *)
LEMMA AnsweredKeepsIInv ==
  ASSUME IInv, NEW c \in Callers, NEW ws \in [Callers -> WaiterRecord],
         ws[c].state # "waiting", \A d \in Callers : d # c => ws[d] = waiter[d],
         waiter' = ws,
         UNCHANGED <<commitVars, durability, mode, leaseCurrent, walVars,
                     snapshotVars, disposalVars>>
  PROVE  IInv'
<1> USE DEF commitVars, walVars, snapshotVars, disposalVars, IInv
<1>1. TypeOK'
  BY DEF TypeOK
<1>2. /\ LineUpToHead' /\ PendingWalIsHead'
      /\ OneVolatileRevision' /\ FailureIsTerminal'
  BY DEF LineUpToHead, PendingWalIsHead, OneVolatileRevision, FailureIsTerminal
<1>3. TaskIsAtWal' /\ SnapshotFailureIsCurrent' /\ DisposalPhases'
  BY DEF TaskIsAtWal, SnapshotFailureIsCurrent, DisposalPhases, isDisposed
<1>4. WaiterIsUnsatisfied' /\ WaiterHasWalWriter'
  BY DEF WaiterIsUnsatisfied, WaiterHasWalWriter
<1> QED BY <1>1, <1>2, <1>3, <1>4

(* Whoever starts to wait does not have the level yet. *)
LEMMA WhenDurableKeepsIInv ==
  ASSUME IInv, NEW c \in Callers, NEW r \in Revisions, NEW target \in Levels,
         WhenDurable(c, r, target)
  PROVE  IInv'
<1>0. /\ TypeOK
      /\ waiter \in [Callers -> WaiterRecord]
      /\ durability[r] \in Levels \cup {Absent}
      /\ UNCHANGED <<commitVars, durability, leaseCurrent, walVars, disposalVars>>
  BY DEF IInv, TypeOK, WhenDurable
<1>1. CASE WhenDurableAnswered(c, r, target)
  <2> DEFINE ws == Request(c, r, target, "ok", durability[r])
  <2>0. /\ ws \in [Callers -> WaiterRecord]
        /\ ws[c] = [state |-> "ok", revision |-> r, target |-> target,
                    achieved |-> durability[r]]
        /\ \A d \in Callers : d # c => ws[d] = waiter[d]
    BY <1>0, RequestFacts
  <2>1. ws[c].state # "waiting"
    BY <2>0
  <2>2. waiter' = ws /\ UNCHANGED <<mode, snapshotVars>>
    BY <1>1 DEF WhenDurableAnswered
  <2> HIDE DEF ws
  <2> QED BY <1>0, <2>0, <2>1, <2>2, AnsweredKeepsIInv
<1>2. CASE WhenDurableRefused(c, r, target)
  <2> DEFINE ws == Request(c, r, target, "error", Absent)
  <2>0. /\ ws \in [Callers -> WaiterRecord]
        /\ ws[c] = [state |-> "error", revision |-> r, target |-> target,
                    achieved |-> Absent]
        /\ \A d \in Callers : d # c => ws[d] = waiter[d]
    BY <1>0, RequestFacts
  <2>1. ws[c].state # "waiting"
    BY <2>0
  <2>2. waiter' = ws /\ UNCHANGED <<mode, snapshotVars>>
    BY <1>2 DEF WhenDurableRefused
  <2> HIDE DEF ws
  <2> QED BY <1>0, <2>0, <2>1, <2>2, AnsweredKeepsIInv
<1>3. CASE WhenDurableWaits(c, r, target)
  <2> DEFINE ws == Request(c, r, target, "waiting", Absent)
  <2>1. /\ ws \in [Callers -> WaiterRecord]
        /\ ws[c] = [state |-> "waiting", revision |-> r, target |-> target,
                    achieved |-> Absent]
        /\ \A d \in Callers : d # c => ws[d] = waiter[d]
    BY <1>0, RequestFacts
  <2>2. /\ ~isDisposed
        /\ ~Reached(r, target)
        /\ ~MustRefuse(r, target)
        /\ scheduleSnapshotForWaiters(r, durability[r], ws)
    BY <1>3 DEF WhenDurableWaits
  <2> HIDE DEF ws
  <2>3. SnapshotPathEffect(r, durability[r], ws)
    BY <1>0, <2>2, ScheduleEffect
  <2>4. /\ durability[r] \in {"memory", "wal"}
        /\ ~isDurabilityAtLeast(durability[r], target)
        /\ durability[r] # "wal" => r = pendingWal
    BY <1>0, <2>2, LevelOrder DEF Reached, MustRefuse, Known, Levels, IInv,
       OneVolatileRevision
  <2>5. \A d \in Callers :
          ws[d].state = "waiting" =>
            /\ durability[ws[d].revision] \in {"memory", "wal"}
            /\ ~isDurabilityAtLeast(durability[ws[d].revision], ws[d].target)
            /\ durability[ws[d].revision] # "wal" => ws[d].revision = pendingWal
    BY <2>1, <2>4 DEF IInv, WaiterIsUnsatisfied, WaiterHasWalWriter
  <2> QED BY <1>0, <2>1, <2>2, <2>3, <2>5, SnapshotPathKeepsIInv
<1> QED BY <1>1, <1>2, <1>3 DEF WhenDurable

(* Each phase of dispose() begins when what it awaits is over. *)
LEMMA DisposeKeepsIInv == IInv /\ Dispose => IInv'
<1> SUFFICES ASSUME IInv, Dispose PROVE IInv'
  OBVIOUS
<1> USE DEF Dispose, commitVars, walVars, snapshotVars, disposalVars, IInv
<1>1. /\ waiter' \in [Callers -> WaiterRecord]
      /\ \A c \in Callers :
           waiter'[c].state = "waiting" => waiter'[c] = waiter[c]
  BY DEF TypeOK, WaiterRecord
<1>2. TypeOK'
  BY <1>1 DEF TypeOK
<1>3. /\ LineUpToHead' /\ PendingWalIsHead'
      /\ OneVolatileRevision' /\ FailureIsTerminal'
  BY DEF LineUpToHead, PendingWalIsHead, OneVolatileRevision, FailureIsTerminal
<1>4. TaskIsAtWal' /\ SnapshotFailureIsCurrent' /\ DisposalPhases'
  BY DEF TaskIsAtWal, SnapshotFailureIsCurrent, DisposalPhases, isDisposed
<1>5. WaiterIsUnsatisfied' /\ WaiterHasWalWriter'
  BY <1>1 DEF WaiterIsUnsatisfied, WaiterHasWalWriter
<1> QED BY <1>2, <1>3, <1>4, <1>5

(* The steps that touch neither the line nor the waiters. *)
LEMMA HousekeepingKeepsIInv ==
  ASSUME IInv,
         \/ \E r \in Revisions : deleteSnapshotTask(r)
         \/ AwaitSnapshots \/ FinishDispose \/ LoseLease
         \/ ApplyFindsStaleLease \/ UNCHANGED vars
  PROVE  IInv'
<1> USE DEF deleteSnapshotTask, AwaitSnapshots, FinishDispose, LoseLease,
        ApplyFindsStaleLease, vars, commitVars, walVars, snapshotVars,
        disposalVars, IInv
<1>1. TypeOK'
  BY DEF TypeOK
<1>2. LineUpToHead' /\ PendingWalIsHead'
  BY DEF LineUpToHead, PendingWalIsHead
<1>3. OneVolatileRevision' /\ FailureIsTerminal'
  BY DEF OneVolatileRevision, FailureIsTerminal
<1>4. TaskIsAtWal' /\ SnapshotFailureIsCurrent'
  BY DEF TypeOK, TaskIsAtWal, SnapshotFailureIsCurrent
<1>5. WaiterIsUnsatisfied' /\ WaiterHasWalWriter'
  BY DEF WaiterIsUnsatisfied, WaiterHasWalWriter
<1>6. DisposalPhases'
  BY DEF TypeOK, DisposalPhases, isDisposed
<1> QED BY <1>1, <1>2, <1>3, <1>4, <1>5, <1>6

(* Every step keeps the invariant. *)
LEMMA NextKeepsIInv == IInv /\ [Next]_vars => IInv'
<1> SUFFICES ASSUME IInv, [Next]_vars PROVE IInv'
  OBVIOUS
<1>1. CASE \E t \in Transactions, base \in Revisions : Apply(t, base)
  BY <1>1, ApplyKeepsIInv
<1>2. CASE WalSettles
  BY <1>2, AppendOkKeepsIInv, WalFailsKeepsIInv, FsyncOkKeepsIInv DEF WalSettles
<1>3. CASE \E r \in Revisions : SnapshotSettles(r)
  BY <1>3, SnapshotCommittedKeepsIInv, SnapshotFailsKeepsIInv DEF SnapshotSettles
<1>4. CASE \E c \in Callers, r \in Revisions, target \in Targets :
             WhenDurable(c, r, target)
  BY <1>4, TargetsAssumption, WhenDurableKeepsIInv
<1>5. CASE \E r \in Revisions : Checkpoint(r)
  BY <1>5, CheckpointKeepsIInv
<1>6. CASE Dispose
  BY <1>6, DisposeKeepsIInv
<1>7. CASE \/ \E r \in Revisions : deleteSnapshotTask(r)
           \/ AwaitSnapshots \/ FinishDispose \/ LoseLease
           \/ ApplyFindsStaleLease \/ UNCHANGED vars
  BY <1>7, HousekeepingKeepsIInv
<1> QED
  BY <1>1, <1>2, <1>3, <1>4, <1>5, <1>6, <1>7 DEF Next, Continuation, Environment

-----------------------------------------------------------------------------
(* The theorems. *)

(* The invariant holds always. *)
LEMMA Invariance == Spec => []IInv
BY InitEstablishesIInv, NextKeepsIInv, PTL DEF Spec

(* Every variable of the Authority keeps its type. *)
THEOREM TypeCorrect == Spec => []TypeOK
<1>1. IInv => TypeOK
  BY DEF IInv
<1> QED BY <1>1, Invariance, PTL

(* At most one mainline Revision is memory-only, and it is either being    *)
(* written or the reason the Authority is sealed: #checkWritable,          *)
(* #installPreparedCommit, #persistWal and #failWal keep this together.    *)
THEOREM AtMostOneVolatileRevision == Spec => []OneVolatileRevision
<1>1. IInv => OneVolatileRevision
  BY DEF IInv
<1> QED BY <1>1, Invariance, PTL

(* Every whenDurable() waiter of a memory-only Revision is in the care of  *)
(* the #persistWal in flight, which answers it whatever the port says.     *)
THEOREM WaitersHaveAWalWriter == Spec => []WaiterHasWalWriter
<1>1. IInv => WaiterHasWalWriter
  BY DEF IInv
<1> QED BY <1>1, Invariance, PTL

(* What #failWal reports is never contradicted later by this Authority.    *)
THEOREM WalFailureIsTerminal == Spec => []FailureIsTerminal
<1>1. IInv => FailureIsTerminal
  BY DEF IInv
<1> QED BY <1>1, Invariance, PTL

(* A key of #snapshotFailures is a Revision at `wal` with no commit in     *)
(* flight, through any interleaving of retries and promotions.             *)
THEOREM SnapshotFailuresAreCurrent == Spec => []SnapshotFailureIsCurrent
<1>1. IInv => SnapshotFailureIsCurrent
  BY DEF IInv
<1> QED BY <1>1, Invariance, PTL

(* #finishDispose releases the lease after the last storage write it may   *)
(* have started has settled.                                               *)
THEOREM LeaseOutlivesWrites == Spec => []ReleaseAfterWrites
<1>1. IInv => ReleaseAfterWrites
  <2> SUFFICES ASSUME IInv, disposal = "disposed"
               PROVE  /\ walStage = "idle"
                      /\ \A r \in Revisions : snapshotTask[r] # "running"
                      /\ \A c \in Callers : waiter[c].state = "waiting"
                                              => waiter[c].target = "snapshot"
    BY DEF ReleaseAfterWrites
  <2>1. pendingWal = NoRevision
    BY DEF IInv, DisposalPhases
  <2>2. walStage = "idle" /\ \A r \in Revisions : snapshotTask[r] # "running"
    BY <2>1 DEF IInv, DisposalPhases, PendingWalIsHead, TypeOK
  <2>3. ASSUME NEW c \in Callers, waiter[c].state = "waiting"
        PROVE  waiter[c].target = "snapshot"
    <3>1. waiter[c].revision \in Revisions /\ waiter[c].target \in Levels
      BY DEF IInv, TypeOK, WaiterRecord
    <3>2. durability[waiter[c].revision] = "wal"
      BY <2>1, <2>3, <3>1, NoRevisionAssumption, SequenceAssumption
         DEF IInv, WaiterHasWalWriter, Revisions
    <3> QED
      BY <2>3, <3>1, <3>2, LevelOrder DEF IInv, WaiterIsUnsatisfied, Levels
  <2> QED BY <2>2, <2>3
<1> QED BY <1>1, Invariance, PTL

(* A read-only Authority stays read-only, keeps its head and starts no new *)
(* write: no handler leaves that state, whatever was already in flight.    *)
THEOREM ReadOnlyForGood == Spec => ReadOnlyIsFinal
<1>1. IInv /\ [Next]_vars => [Sealed]_vars
  <2> SUFFICES ASSUME IInv, Next PROVE Sealed
    BY DEF vars, Sealed, commitVars, snapshotVars, walVars
  <2> USE DEF Sealed, commitVars, walVars, snapshotVars, disposalVars
  <2>0. TypeOK
    BY DEF IInv
  <2>1. CASE \E t \in Transactions, base \in Revisions : Apply(t, base)
    BY <2>1 DEF Apply
  <2>2. CASE AppendOk \/ WalFails
    BY <2>2 DEF AppendOk, WalFails
  <2>3. CASE FsyncOk
    <3>1. pendingWal \in Revisions
      BY <2>0, <2>3 DEF FsyncOk, IInv, PendingWalIsHead, TypeOK
    <3>2. SnapshotPathEffect(pendingWal, "wal",
                             resolveWaiters(waiter, pendingWal, "wal"))
      BY <2>0, <2>3, <3>1, ScheduleEffect DEF FsyncOk
    <3> QED BY <2>3, <3>2 DEF FsyncOk, SnapshotPathEffect
  <2>4. ASSUME NEW r \in Revisions, SnapshotSettles(r) PROVE Sealed
    BY <2>0, <2>4 DEF SnapshotSettles, SnapshotCommitted, SnapshotFails, TypeOK
  <2>5. ASSUME NEW r \in Revisions, deleteSnapshotTask(r) PROVE Sealed
    BY <2>0, <2>5 DEF deleteSnapshotTask, TypeOK
  <2>6. ASSUME NEW c \in Callers, NEW r \in Revisions, NEW target \in Targets,
               WhenDurable(c, r, target)
        PROVE  Sealed
    <3>1. CASE WhenDurableWaits(c, r, target)
      <4>1. SnapshotPathEffect(r, durability[r],
                               Request(c, r, target, "waiting", Absent))
        BY <2>0, <3>1, ScheduleEffect DEF WhenDurableWaits
      <4> QED BY <2>6, <4>1 DEF WhenDurable, SnapshotPathEffect
    <3>2. CASE UNCHANGED <<mode, snapshotVars>>
      BY <2>6, <3>2 DEF WhenDurable
    <3> QED
      BY <2>6, <3>1, <3>2 DEF WhenDurable, WhenDurableAnswered, WhenDurableRefused
  <2>7. ASSUME NEW r \in Revisions, Checkpoint(r) PROVE Sealed
    <3>1. SnapshotPathEffect(r, durability[r], waiter)
      BY <2>0, <2>7, CheckpointEffect DEF Checkpoint
    <3> QED BY <2>7, <3>1 DEF Checkpoint, SnapshotPathEffect
  <2>8. CASE Dispose \/ LoseLease \/ ApplyFindsStaleLease \/ AwaitSnapshots
             \/ FinishDispose
    BY <2>8 DEF Dispose, LoseLease, ApplyFindsStaleLease, AwaitSnapshots,
       FinishDispose
  <2> QED
    BY <2>1, <2>2, <2>3, <2>4, <2>5, <2>6, <2>7, <2>8
       DEF Next, Continuation, Environment, WalSettles
<1> QED BY <1>1, Invariance, PTL DEF Spec, ReadOnlyIsFinal

-----------------------------------------------------------------------------
(* Waiters for a Snapshot, where callers checkpoint no memory-only         *)
(* Revision: CheckpointBeforeWal is FALSE.                                 *)

(* No task is in the map before its Revision is at `wal`, so none that     *)
(* settled too early can be met by a promotion.                            *)
NoTaskBeforeWal ==
  \A r \in Revisions :
    snapshotTask[r] # "none" => durability[r] \in {"wal", "snapshot"}

(* A task that settled without a Snapshot has left the reason for which    *)
(* whenDurable() refuses the next caller.                                  *)
SettledTaskIsOver ==
  \A r \in Revisions :
    snapshotTask[r] = "settled" /\ durability[r] = "wal"
      => r \in snapshotFailed \/ mode = "read-only"

Owes == NoTaskBeforeWal /\ SettledTaskIsOver /\ SnapshotWaiterIsScheduled

(* The waiters of ws for other Revisions than r have their task.           *)
OthersAreScheduled(r, ws) ==
  \A c \in Callers :
    Waits(ws[c], ws[c].revision, {"snapshot"})
      /\ ws[c].revision # r /\ durability[ws[c].revision] = "wal"
        => snapshotTask[ws[c].revision] = "running"

(* Only the durability of r changes, and to `level`. *)
OnlyMoves(r, level) ==
  /\ durability'[r] = level
  /\ \A q \in Revisions : q # r => durability'[q] = durability[q]

(* #getOrStartCheckpoint() for a Revision past its WAL write starts the    *)
(* Snapshot or rejects its waiters, unless it joins a task at work.        *)
LEMMA CheckpointOwes ==
  ASSUME TypeOK, NoTaskBeforeWal, SettledTaskIsOver,
         NEW r \in Revisions, NEW level \in {"wal", "snapshot"},
         NEW ws \in [Callers -> WaiterRecord],
         OthersAreScheduled(r, ws), OnlyMoves(r, level),
         \A c \in Callers : Waits(ws[c], r, {"snapshot"}) /\ level = "wal"
                              => snapshotTask[r] # "settled",
         snapshotTask[r] = "settled" /\ level = "wal"
           => r \in snapshotFailed \/ mode = "read-only",
         getOrStartCheckpoint(r, level, ws)
  PROVE  Owes'
<1>1. \A c \in Callers : ws[c].revision \in Revisions
  BY DEF WaiterRecord
<1> USE DEF TypeOK, Owes, NoTaskBeforeWal, SettledTaskIsOver,
            SnapshotWaiterIsScheduled, OthersAreScheduled, OnlyMoves
<1>2. CASE JoinTask(r, ws)
  <2>1. NoTaskBeforeWal' /\ SettledTaskIsOver'
    BY <1>2 DEF JoinTask
  <2>2. SnapshotWaiterIsScheduled'
    BY <1>1, <1>2 DEF JoinTask, Waits
  <2> QED BY <2>1, <2>2
<1>3. CASE AnswerCheckpoint(r, level, ws)
  <2>1. NoTaskBeforeWal' /\ SettledTaskIsOver'
    BY <1>3 DEF AnswerCheckpoint
  <2>2. SnapshotWaiterIsScheduled'
    BY <1>1, <1>3 DEF AnswerCheckpoint, Waits
  <2> QED BY <2>1, <2>2
<1>4. ASSUME RefuseCheckpointReadOnly(r, level, ws)
             \/ RefuseCheckpointStaleLease(r, level, ws)
      PROVE  Owes'
  <2>1. /\ snapshotTask' = [snapshotTask EXCEPT ![r] = "settled"]
        /\ waiter' = rejectWaiters(ws, r, {"snapshot"})
        /\ mode' = "read-only"
        /\ level = "wal"
    BY <1>4 DEF RefuseCheckpointReadOnly, RefuseCheckpointStaleLease
  <2>2. NoTaskBeforeWal' /\ SettledTaskIsOver'
    BY <2>1
  <2>3. \A c \in Callers :
          waiter'[c].state = "waiting" =>
            waiter'[c] = ws[c] /\ ~Waits(ws[c], r, {"snapshot"})
    BY <2>1, RejectFacts
  <2>4. SnapshotWaiterIsScheduled'
    BY <1>1, <2>1, <2>3 DEF Waits
  <2> QED BY <2>2, <2>4
<1>5. CASE StartCheckpoint(r, level, ws)
  <2>1. /\ snapshotTask' = [snapshotTask EXCEPT ![r] = "running"]
        /\ waiter' = ws
        /\ mode' = mode
        /\ level = "wal"
        /\ \A q \in Revisions : q # r /\ q \in snapshotFailed
                                  => q \in snapshotFailed'
    BY <1>5 DEF StartCheckpoint
  <2>2. NoTaskBeforeWal' /\ SettledTaskIsOver'
    BY <2>1
  <2>3. SnapshotWaiterIsScheduled'
    BY <1>1, <2>1 DEF Waits
  <2> QED BY <2>2, <2>3
<1> QED
  BY <1>2, <1>3, <1>4, <1>5 DEF getOrStartCheckpoint

(* #scheduleSnapshotForWaiters() for a Revision whose Snapshot has not     *)
(* been tried and failed leaves no waiter of it without a task.            *)
LEMMA ScheduleOwes ==
  ASSUME TypeOK, NoTaskBeforeWal, SettledTaskIsOver,
         NEW r \in Revisions, NEW level \in {"memory", "wal"},
         NEW ws \in [Callers -> WaiterRecord],
         OthersAreScheduled(r, ws), OnlyMoves(r, level),
         level = "wal" => r \notin snapshotFailed /\ snapshotTask[r] # "settled",
         level = "memory" => snapshotTask[r] = "none",
         scheduleSnapshotForWaiters(r, level, ws)
  PROVE  Owes'
<1>1. CASE NeedsSnapshot(r, level, ws) /\ getOrStartCheckpoint(r, level, ws)
  <2>1. level = "wal"
    BY <1>1 DEF NeedsSnapshot
  <2> QED BY <1>1, <2>1, CheckpointOwes
<1>2. CASE /\ ~NeedsSnapshot(r, level, ws)
           /\ waiter' = ws
           /\ UNCHANGED <<mode, snapshotFailed, snapshotTask>>
  <2>1. \A c \in Callers : ws[c].revision \in Revisions
    BY DEF WaiterRecord
  <2>2. NoTaskBeforeWal' /\ SettledTaskIsOver'
    BY <1>2 DEF NoTaskBeforeWal, SettledTaskIsOver, OnlyMoves
  <2>3. \A c \in Callers : ~(Waits(ws[c], r, {"snapshot"}) /\ level = "wal")
    BY <1>2 DEF NeedsSnapshot
  <2>4. SnapshotWaiterIsScheduled'
    BY <1>2, <2>1, <2>3
       DEF SnapshotWaiterIsScheduled, OthersAreScheduled, OnlyMoves, Waits
  <2> QED BY <2>2, <2>4 DEF Owes
<1> QED
  BY <1>1, <1>2 DEF scheduleSnapshotForWaiters

(* The promotion to `wal` finds no task in the map and starts one if       *)
(* anybody waits for it.                                                   *)
LEMMA FsyncOkOwes == IInv /\ Owes /\ FsyncOk => Owes'
<1> SUFFICES ASSUME IInv, Owes, FsyncOk PROVE Owes'
  OBVIOUS
<1> DEFINE ws == resolveWaiters(waiter, pendingWal, "wal")
<1>1. /\ TypeOK
      /\ pendingWal \in Revisions
      /\ durability[pendingWal] = "memory"
      /\ pendingWal \notin snapshotFailed
  BY NoRevisionAssumption
     DEF IInv, FsyncOk, PendingWalIsHead, TypeOK, SnapshotFailureIsCurrent
<1>2. snapshotTask[pendingWal] = "none"
  BY <1>1 DEF Owes, NoTaskBeforeWal
<1>3. OnlyMoves(pendingWal, "wal")
  BY <1>1 DEF FsyncOk, OnlyMoves, TypeOK
<1>4. /\ ws \in [Callers -> WaiterRecord]
      /\ \A c \in Callers : ws[c].state = "waiting" => ws[c] = waiter[c]
  <2>1. waiter \in [Callers -> WaiterRecord] /\ "wal" \in Levels
    BY <1>1 DEF TypeOK, Levels
  <2>2. /\ ws \in [Callers -> WaiterRecord]
        /\ \A c \in Callers :
             ws[c].state = "waiting" =>
               /\ ws[c] = waiter[c]
               /\ ~Waits(waiter[c], pendingWal, SatisfiedBy("wal"))
    BY <2>1, ResolveFacts
  <2> QED BY <2>2
<1>5. OthersAreScheduled(pendingWal, ws)
  BY <1>4 DEF OthersAreScheduled, Owes, SnapshotWaiterIsScheduled, Waits
<1>6. scheduleSnapshotForWaiters(pendingWal, "wal", ws)
  BY DEF FsyncOk
<1> QED
  BY <1>1, <1>2, <1>3, <1>4, <1>5, <1>6, ScheduleOwes DEF Owes

(* A caller that waits for a Snapshot of a Revision at `wal` gets its task *)
(* in the turn in which it asks.                                           *)
LEMMA WhenDurableOwes ==
  ASSUME IInv, Owes, NEW c \in Callers, NEW r \in Revisions,
         NEW target \in Levels, WhenDurable(c, r, target)
  PROVE  Owes'
<1> USE DEF WhenDurable, commitVars, walVars, snapshotVars, disposalVars
<1>1. TypeOK
  BY DEF IInv
<1>2. CASE WhenDurableAnswered(c, r, target) \/ WhenDurableRefused(c, r, target)
  <2>1. /\ \A d \in Callers :
             waiter'[d].state = "waiting" => waiter'[d] = waiter[d]
        /\ UNCHANGED <<mode, snapshotFailed, snapshotTask, durability>>
    BY <1>1, <1>2
       DEF WhenDurableAnswered, WhenDurableRefused, Request, TypeOK
  <2>2. NoTaskBeforeWal' /\ SettledTaskIsOver'
    BY <2>1 DEF Owes, NoTaskBeforeWal, SettledTaskIsOver
  <2>3. SnapshotWaiterIsScheduled'
    BY <2>1 DEF Owes, SnapshotWaiterIsScheduled, Waits
  <2> QED BY <2>2, <2>3 DEF Owes
<1>3. CASE WhenDurableWaits(c, r, target)
  <2> DEFINE ws == Request(c, r, target, "waiting", Absent)
  <2>1. ws \in [Callers -> WaiterRecord]
    BY <1>1 DEF TypeOK, Request, WaiterRecord
  <2>2. /\ ws[c].revision = r
        /\ \A d \in Callers : d # c => ws[d] = waiter[d]
    BY <1>1 DEF TypeOK, Request
  <2>3. /\ durability[r] \in {"memory", "wal"}
        /\ mode = "read-write"
        /\ scheduleSnapshotForWaiters(r, durability[r], ws)
    BY <1>1, <1>3, LevelOrder
       DEF WhenDurableWaits, MustRefuse, Reached, Known, TypeOK, Levels, Absent
  <2>4. durability[r] = "wal" => target = "snapshot" /\ r \notin snapshotFailed
    BY <1>3, LevelOrder
       DEF WhenDurableWaits, MustRefuse, Reached, Known, Levels, Absent
  <2>5. durability[r] = "wal" => snapshotTask[r] # "settled"
    BY <2>3, <2>4 DEF Owes, SettledTaskIsOver
  <2>6. durability[r] = "memory" => snapshotTask[r] = "none"
    BY DEF Owes, NoTaskBeforeWal
  <2> HIDE DEF ws
  <2>7. OthersAreScheduled(r, ws)
    BY <2>2 DEF OthersAreScheduled, Owes, SnapshotWaiterIsScheduled
  <2>8. OnlyMoves(r, durability[r])
    BY DEF OnlyMoves
  <2> QED
    BY <1>1, <2>1, <2>3, <2>4, <2>5, <2>6, <2>7, <2>8, ScheduleOwes DEF Owes
<1> QED BY <1>2, <1>3

(* checkpoint() of a Revision past its WAL write.                          *)
LEMMA CheckpointCallOwes ==
  ASSUME IInv, Owes, ~CheckpointBeforeWal, NEW r \in Revisions, Checkpoint(r)
  PROVE  Owes'
<1>1. /\ TypeOK
      /\ durability[r] \in {"wal", "snapshot"}
      /\ durability' = durability
      /\ getOrStartCheckpoint(r, durability[r], waiter)
      /\ waiter \in [Callers -> WaiterRecord]
  BY DEF IInv, Checkpoint, TypeOK
<1>2. OthersAreScheduled(r, waiter) /\ OnlyMoves(r, durability[r])
  BY <1>1 DEF OthersAreScheduled, OnlyMoves, Owes, SnapshotWaiterIsScheduled
<1>3. \A c \in Callers :
        Waits(waiter[c], r, {"snapshot"}) /\ durability[r] = "wal"
          => snapshotTask[r] # "settled"
  BY DEF Owes, SnapshotWaiterIsScheduled, Waits
<1>4. snapshotTask[r] = "settled" /\ durability[r] = "wal"
        => r \in snapshotFailed \/ mode = "read-only"
  BY DEF Owes, SettledTaskIsOver
<1> QED
  BY <1>1, <1>2, <1>3, <1>4, CheckpointOwes DEF Owes

(* A Snapshot commit that ends tells its waiters.                          *)
LEMMA SnapshotSettlesOwes ==
  ASSUME IInv, Owes, NEW r \in Revisions, SnapshotSettles(r)
  PROVE  Owes'
<1> USE DEF commitVars, walVars
<1>1. TypeOK /\ durability[r] = "wal"
  BY DEF IInv, TaskIsAtWal, SnapshotSettles, SnapshotCommitted, SnapshotFails
<1>2. \A c \in Callers : waiter[c].revision \in Revisions
  BY <1>1 DEF TypeOK, WaiterRecord
<1>3. CASE SnapshotCommitted(r)
  <2>1. /\ snapshotTask' = [snapshotTask EXCEPT ![r] = "settled"]
        /\ durability' = [durability EXCEPT ![r] = "snapshot"]
        /\ mode' = mode
        /\ snapshotFailed' = snapshotFailed \ {r}
    BY <1>3 DEF SnapshotCommitted
  <2>2. NoTaskBeforeWal' /\ SettledTaskIsOver'
    BY <1>1, <2>1 DEF Owes, NoTaskBeforeWal, SettledTaskIsOver, TypeOK
  <2>3. \A c \in Callers : waiter'[c].state = "waiting" => waiter'[c] = waiter[c]
    <3>1. waiter \in [Callers -> WaiterRecord] /\ "snapshot" \in Levels
      BY <1>1 DEF TypeOK, Levels
    <3>2. \A c \in Callers :
            resolveWaiters(waiter, r, "snapshot")[c].state = "waiting" =>
              /\ resolveWaiters(waiter, r, "snapshot")[c] = waiter[c]
              /\ ~Waits(waiter[c], r, SatisfiedBy("snapshot"))
      BY <3>1, ResolveFacts
    <3> QED BY <1>3, <3>2 DEF SnapshotCommitted
  <2>4. SnapshotWaiterIsScheduled'
    BY <1>1, <1>2, <2>1, <2>3
       DEF Owes, SnapshotWaiterIsScheduled, Waits, TypeOK
  <2> QED BY <2>2, <2>4 DEF Owes
<1>4. ASSUME NEW reason, SnapshotFails(r, reason)
      PROVE  Owes'
  <2>1. /\ snapshotTask' = [snapshotTask EXCEPT ![r] = "settled"]
        /\ durability' = durability
        /\ mode' = mode \/ mode' = "read-only"
        /\ snapshotFailed' = snapshotFailed \cup {r}
    BY <1>4 DEF SnapshotFails
  <2>2. NoTaskBeforeWal' /\ SettledTaskIsOver'
    BY <1>1, <2>1 DEF Owes, NoTaskBeforeWal, SettledTaskIsOver, TypeOK
  <2>3. \A c \in Callers :
          waiter'[c].state = "waiting" =>
            waiter'[c] = waiter[c] /\ ~Waits(waiter[c], r, {"snapshot"})
    BY <1>1, <1>4, RejectFacts DEF SnapshotFails, TypeOK
  <2>4. SnapshotWaiterIsScheduled'
    BY <1>1, <1>2, <2>1, <2>3
       DEF Owes, SnapshotWaiterIsScheduled, Waits, TypeOK
  <2> QED BY <2>2, <2>4 DEF Owes
<1> QED BY <1>3, <1>4 DEF SnapshotSettles

(* The steps that start no task and promote nothing. *)
LEMMA OtherStepsOwe ==
  ASSUME IInv, Owes,
         \/ \E t \in Transactions, base \in Revisions : Apply(t, base)
         \/ AppendOk \/ WalFails \/ Dispose
         \/ \E r \in Revisions : deleteSnapshotTask(r)
         \/ AwaitSnapshots \/ FinishDispose \/ LoseLease
         \/ ApplyFindsStaleLease \/ UNCHANGED vars
  PROVE  Owes'
<1> USE DEF commitVars, walVars, snapshotVars, disposalVars, vars
<1>1. TypeOK
  BY DEF IInv
<1> DEFINE TasksEnd ==
             \A r \in Revisions :
               \/ snapshotTask'[r] = snapshotTask[r]
               \/ snapshotTask[r] = "settled" /\ snapshotTask'[r] = "none"
           WaitersStay ==
             \A c \in Callers :
               waiter'[c].state = "waiting" => waiter'[c] = waiter[c]
<1>2. ASSUME mode' = mode \/ mode' = "read-only",
             UNCHANGED <<durability, snapshotFailed>>,
             TasksEnd, WaitersStay
      PROVE  Owes'
  <2>1. \A c \in Callers : waiter[c].revision \in Revisions
    BY <1>1 DEF TypeOK, WaiterRecord
  <2>2. NoTaskBeforeWal' /\ SettledTaskIsOver'
    BY <1>2 DEF Owes, NoTaskBeforeWal, SettledTaskIsOver
  <2>3. SnapshotWaiterIsScheduled'
    BY <1>2, <2>1 DEF Owes, SnapshotWaiterIsScheduled, Waits
  <2> QED BY <2>2, <2>3 DEF Owes
<1>3. CASE \E t \in Transactions, base \in Revisions : Apply(t, base)
  <2>1. /\ head + 1 \in Revisions
        /\ durability' = [durability EXCEPT ![head + 1] = "memory"]
        /\ UNCHANGED <<mode, snapshotFailed, snapshotTask, waiter>>
    BY <1>1, <1>3, SequenceAssumption DEF Apply, TypeOK, Revisions
  <2>2. durability[head + 1] = Absent
    BY <1>1, <2>1 DEF IInv, LineUpToHead, TypeOK, Revisions
  <2>3. snapshotTask[head + 1] = "none"
    BY <2>1, <2>2 DEF Owes, NoTaskBeforeWal, Absent
  <2>4. NoTaskBeforeWal' /\ SettledTaskIsOver'
    BY <1>1, <2>1, <2>3 DEF Owes, NoTaskBeforeWal, SettledTaskIsOver, TypeOK
  <2>5. \A c \in Callers : waiter[c].revision \in Revisions
    BY <1>1 DEF TypeOK, WaiterRecord
  <2>6. SnapshotWaiterIsScheduled'
    BY <1>1, <2>1, <2>5 DEF Owes, SnapshotWaiterIsScheduled, Waits, TypeOK
  <2> QED BY <2>4, <2>6 DEF Owes
<1>4. CASE WalFails
  <2>1. WaitersStay
    <3>1. waiter \in [Callers -> WaiterRecord]
      BY <1>1 DEF TypeOK
    <3> QED BY <1>4, <3>1, RejectFacts DEF WalFails
  <2>2. TasksEnd /\ mode' = "read-only" /\ UNCHANGED <<durability, snapshotFailed>>
    BY <1>4 DEF WalFails
  <2> QED BY <1>2, <2>1, <2>2
<1>5. CASE Dispose
  <2>1. WaitersStay
    BY <1>1, <1>5 DEF Dispose, TypeOK, WaiterRecord
  <2>2. TasksEnd /\ mode' = "read-only" /\ UNCHANGED <<durability, snapshotFailed>>
    BY <1>5 DEF Dispose
  <2> QED BY <1>2, <2>1, <2>2
<1>6. CASE \E r \in Revisions : deleteSnapshotTask(r)
  <2>1. TasksEnd
    BY <1>1, <1>6 DEF deleteSnapshotTask, TypeOK
  <2>2. WaitersStay /\ UNCHANGED <<mode, durability, snapshotFailed>>
    BY <1>6 DEF deleteSnapshotTask
  <2> QED BY <1>2, <2>1, <2>2
<1>7. CASE \/ AppendOk \/ AwaitSnapshots \/ FinishDispose \/ LoseLease
           \/ ApplyFindsStaleLease \/ UNCHANGED vars
  <2>1. /\ mode' = mode \/ mode' = "read-only"
        /\ UNCHANGED <<durability, snapshotFailed, snapshotTask, waiter>>
    BY <1>7 DEF AppendOk, AwaitSnapshots, FinishDispose, LoseLease,
                ApplyFindsStaleLease
  <2>2. TasksEnd /\ WaitersStay
    BY <2>1
  <2> QED BY <1>2, <2>1, <2>2
<1> QED BY <1>3, <1>4, <1>5, <1>6, <1>7

(* ADR-010: whoever waits for a Snapshot of a Revision at `wal` has one at *)
(* work, or has been refused, where callers checkpoint only Revisions that *)
(* are past their WAL write.  StaleCheckpointTask shows that the condition *)
(* is needed.                                                              *)
THEOREM SnapshotWaitersAreScheduled ==
  ASSUME ~CheckpointBeforeWal
  PROVE  Spec => []SnapshotWaiterIsScheduled
<1>1. Init => Owes
  BY DEF Init, Owes, NoTaskBeforeWal, SettledTaskIsOver,
         SnapshotWaiterIsScheduled, Waits
<1>2. IInv /\ Owes /\ [Next]_vars => Owes'
  <2> SUFFICES ASSUME IInv, Owes, [Next]_vars PROVE Owes'
    OBVIOUS
  <2>1. CASE FsyncOk
    BY <2>1, FsyncOkOwes
  <2>2. CASE \E r \in Revisions : SnapshotSettles(r)
    BY <2>2, SnapshotSettlesOwes
  <2>3. CASE \E c \in Callers, r \in Revisions, target \in Targets :
               WhenDurable(c, r, target)
    BY <2>3, TargetsAssumption, WhenDurableOwes
  <2>4. CASE \E r \in Revisions : Checkpoint(r)
    BY <2>4, CheckpointCallOwes
  <2>5. CASE \/ \E t \in Transactions, base \in Revisions : Apply(t, base)
             \/ AppendOk \/ WalFails \/ Dispose
             \/ \E r \in Revisions : deleteSnapshotTask(r)
             \/ AwaitSnapshots \/ FinishDispose \/ LoseLease
             \/ ApplyFindsStaleLease \/ UNCHANGED vars
    BY <2>5, OtherStepsOwe
  <2> QED
    BY <2>1, <2>2, <2>3, <2>4, <2>5 DEF Next, Continuation, Environment, WalSettles
<1>3. Owes => SnapshotWaiterIsScheduled
  BY DEF Owes
<1> QED
  BY <1>1, <1>2, <1>3, Invariance, PTL DEF Spec

-----------------------------------------------------------------------------
(* The refinement of DurabilityPromise. *)

(* The levels have the same order in both specifications. *)
LEMMA SameOrder ==
  \A a, b \in Levels :
    Promise!isDurabilityAtLeast(a, b) <=> isDurabilityAtLeast(a, b)
BY DEF Levels, isDurabilityAtLeast, durabilityRank,
   Promise!isDurabilityAtLeast, Promise!durabilityRank

(* A commit is a commit of the promise. *)
LEMMA ApplyCommits ==
  ASSUME IInv, NEW t \in Transactions, NEW base \in Revisions, Apply(t, base)
  PROVE  Promise!Commit
<1>1. durability[head] \in {"wal", "snapshot"}
  BY NoRevisionAssumption, SequenceAssumption
     DEF IInv, TypeOK, OneVolatileRevision, LineUpToHead, Levels, Absent,
         Apply, Revisions
<1> QED BY <1>1 DEF Promise!Commit, Apply

(* Steps that reject waiters and may seal, but raise nothing. *)
LEMMA RejectionsRefuse ==
  ASSUME IInv, NEW r, NEW T,
         waiter' \in {waiter, rejectWaiters(waiter, r, T)},
         mode' \in {mode, "read-only"}, UNCHANGED <<head, durability>>
  PROVE  Promise!Refuse
<1>1. \A c \in Callers :
        \/ waiter'[c] = waiter[c]
        \/ /\ waiter[c].state = "waiting"
           /\ waiter'[c] = [waiter[c] EXCEPT !.state = "error"]
  BY DEF rejectWaiters, Waits, IInv, TypeOK
<1> QED
  BY <1>1 DEF Promise!Refuse, Promise!OthersMayBeRefused, Promise!Unmoved,
     Promise!Refused, Promise!Pending, Promise!MaySeal

(* dispose() may refuse what was asked for, and raises nothing. *)
LEMMA DisposeRefuses == IInv /\ Dispose => Promise!Refuse
<1> SUFFICES ASSUME IInv, Dispose PROVE Promise!Refuse
  OBVIOUS
<1>1. \A c \in Callers :
        \/ waiter'[c] = waiter[c]
        \/ /\ waiter[c].state = "waiting"
           /\ waiter'[c] = [waiter[c] EXCEPT !.state = "error"]
  BY DEF Dispose, Waits, IInv, TypeOK
<1> QED
  BY <1>1 DEF Promise!Refuse, Promise!OthersMayBeRefused, Promise!Unmoved,
     Promise!Refused, Promise!Pending, Promise!MaySeal, Dispose, commitVars

(* Promotion of r from `old` to `new`: what it satisfies is kept, and the  *)
(* rest of r's waiters may be refused by the Snapshot path in the turn.    *)
LEMMA PromotionClimbs ==
  ASSUME IInv, NEW r \in Revisions, durability[r] \in {"memory", "wal"},
         NEW level \in {"wal", "snapshot"},
         level = Promise!NextLevel(durability[r]),
         durability' = [durability EXCEPT ![r] = level],
         waiter' \in {resolveWaiters(waiter, r, level),
                      rejectWaiters(resolveWaiters(waiter, r, level), r,
                                    {"snapshot"})},
         mode' \in {mode, "read-only"}, UNCHANGED head
  PROVE  Promise!Climb(r)
<1> DEFINE ws == resolveWaiters(waiter, r, level)
<1>0. waiter \in [Callers -> WaiterRecord] /\ level \in Levels
  BY DEF IInv, TypeOK, Levels
<1>1. /\ ws \in [Callers -> WaiterRecord]
      /\ \A c \in Callers :
           \/ ~Waits(waiter[c], r, SatisfiedBy(level)) /\ ws[c] = waiter[c]
           \/ /\ Waits(waiter[c], r, SatisfiedBy(level))
              /\ ws[c] = [waiter[c] EXCEPT !.state = "ok", !.achieved = level]
  <2>1. resolveWaiters(waiter, r, level) \in [Callers -> WaiterRecord]
    BY <1>0, ResolveFacts
  <2> QED BY <2>1 DEF resolveWaiters
<1>2. \A c \in Callers :
        \/ waiter'[c] = ws[c]
        \/ /\ Waits(ws[c], r, {"snapshot"})
           /\ waiter'[c] = [ws[c] EXCEPT !.state = "error"]
  BY <1>1 DEF rejectWaiters
<1> HIDE DEF ws
<1>3. ASSUME NEW c \in Callers
      PROVE  LET concerned == Promise!Pending(c) /\ waiter[c].revision = r
                 satisfied == Promise!isDurabilityAtLeast(level, waiter[c].target)
             IN  \/ concerned /\ satisfied /\ Promise!Kept(c, level)
                 \/ /\ concerned /\ ~satisfied
                    /\ Promise!Unmoved(c) \/ Promise!Refused(c)
                 \/ ~concerned /\ Promise!Unmoved(c)
  <2>0. /\ waiter[c] \in WaiterRecord
        /\ waiter[c].target \in Levels
        /\ Promise!isDurabilityAtLeast(level, waiter[c].target)
             <=> waiter[c].target \in SatisfiedBy(level)
    BY <1>0, SameOrder DEF WaiterRecord, SatisfiedBy
  <2>1. CASE Waits(waiter[c], r, SatisfiedBy(level))
    <3>1. ws[c] = [waiter[c] EXCEPT !.state = "ok", !.achieved = level]
      BY <1>1, <2>1
    <3>2. waiter'[c] = ws[c]
      BY <1>2, <2>0, <3>1 DEF Waits, WaiterRecord
    <3> QED
      BY <2>0, <2>1, <3>1, <3>2 DEF Waits, Promise!Pending, Promise!Kept
  <2>2. CASE ~Waits(waiter[c], r, SatisfiedBy(level))
    <3>1. ws[c] = waiter[c]
      BY <1>1, <2>2
    <3>2. \/ waiter'[c] = waiter[c]
          \/ /\ Waits(waiter[c], r, {"snapshot"})
             /\ waiter'[c] = [waiter[c] EXCEPT !.state = "error"]
      BY <1>2, <3>1
    <3> QED
      BY <2>0, <2>2, <3>2 DEF Waits, Promise!Pending, Promise!Unmoved,
         Promise!Refused
  <2> QED BY <2>1, <2>2
<1> QED BY <1>3 DEF Promise!Climb, Promise!MaySeal

(* An fsync lifts the pending Revision by one rung. *)
LEMMA FsyncOkClimbs == IInv /\ FsyncOk => Promise!Climb(pendingWal)
<1> SUFFICES ASSUME IInv, FsyncOk PROVE Promise!Climb(pendingWal)
  OBVIOUS
<1>1. /\ TypeOK
      /\ pendingWal \in Revisions
      /\ durability[pendingWal] = "memory"
  BY DEF IInv, TypeOK, PendingWalIsHead, FsyncOk
<1>2. SnapshotPathEffect(pendingWal, "wal",
                         resolveWaiters(waiter, pendingWal, "wal"))
  BY <1>1, ScheduleEffect DEF FsyncOk
<1>3. mode' \in {mode, "read-only"}
  BY <1>1, <1>2 DEF SnapshotPathEffect, TypeOK
<1>4. /\ durability' = [durability EXCEPT ![pendingWal] = "wal"]
      /\ UNCHANGED head
      /\ Promise!NextLevel(durability[pendingWal]) = "wal"
      /\ waiter' \in {resolveWaiters(waiter, pendingWal, "wal"),
                      rejectWaiters(resolveWaiters(waiter, pendingWal, "wal"),
                                    pendingWal, {"snapshot"})}
  BY <1>1, <1>2 DEF FsyncOk, commitVars, Promise!NextLevel, SnapshotPathEffect
<1> QED BY <1>1, <1>3, <1>4, PromotionClimbs

(* A Snapshot commit lifts its Revision by one rung. *)
LEMMA SnapshotCommittedClimbs ==
  ASSUME IInv, NEW r \in Revisions, SnapshotCommitted(r)
  PROVE  Promise!Climb(r)
<1>1. durability[r] = "wal"
  BY DEF IInv, TaskIsAtWal, SnapshotCommitted
<1>2. /\ durability' = [durability EXCEPT ![r] = "snapshot"]
      /\ UNCHANGED <<head, mode>>
      /\ Promise!NextLevel(durability[r]) = "snapshot"
      /\ waiter' = resolveWaiters(waiter, r, "snapshot")
  BY <1>1 DEF SnapshotCommitted, commitVars, Promise!NextLevel
<1> QED BY <1>1, <1>2, PromotionClimbs

(* A call that asks for a level asks for it in the promise. *)
LEMMA WhenDurableAsks ==
  ASSUME IInv, NEW c \in Callers, NEW r \in Revisions, NEW target \in Levels,
         WhenDurable(c, r, target)
  PROVE  Promise!Ask(c, r, target)
<1>0. /\ waiter \in [Callers -> WaiterRecord]
      /\ TypeOK
      /\ durability[r] \in Levels \cup {Absent}
      /\ waiter[c].state # "waiting"
      /\ UNCHANGED <<head, durability>>
  BY DEF IInv, TypeOK, WhenDurable, commitVars
<1> USE DEF Promise!Ask, Promise!Pending, Promise!Truthful, Promise!MaySeal,
        Promise!OthersMayBeRefused, Promise!Unmoved, Promise!Refused
<1>1. CASE WhenDurableAnswered(c, r, target)
  <2>1. /\ waiter'[c] = [state |-> "ok", revision |-> r, target |-> target,
                         achieved |-> durability[r]]
        /\ \A d \in Callers \ {c} : waiter'[d] = waiter[d]
        /\ durability[r] # Absent
        /\ isDurabilityAtLeast(durability[r], target)
        /\ mode' = mode
    BY <1>0, <1>1, RequestFacts DEF WhenDurableAnswered, Reached, Known
  <2>2. Promise!isDurabilityAtLeast(durability[r], target)
    BY <1>0, <2>1, SameOrder
  <2> QED BY <1>0, <2>1, <2>2 DEF Promise!Absent, Absent
<1>2. CASE WhenDurableRefused(c, r, target)
  <2>1. /\ waiter'[c] = [state |-> "error", revision |-> r, target |-> target,
                         achieved |-> Absent]
        /\ \A d \in Callers \ {c} : waiter'[d] = waiter[d]
        /\ mode' = mode
    BY <1>0, <1>2, RequestFacts DEF WhenDurableRefused
  <2> QED BY <1>0, <2>1
<1>3. CASE WhenDurableWaits(c, r, target)
  <2> DEFINE ws == Request(c, r, target, "waiting", Absent)
  <2>1. /\ ws \in [Callers -> WaiterRecord]
        /\ ws[c] = [state |-> "waiting", revision |-> r, target |-> target,
                    achieved |-> Absent]
        /\ \A d \in Callers : d # c => ws[d] = waiter[d]
    BY <1>0, RequestFacts
  <2>2. ~Reached(r, target) /\ ~MustRefuse(r, target)
    BY <1>3 DEF WhenDurableWaits
  <2>3. SnapshotPathEffect(r, durability[r], ws)
    BY <1>0, <1>3, ScheduleEffect DEF WhenDurableWaits
  <2> HIDE DEF ws
  <2>4. /\ mode' \in {mode, "read-only"}
        /\ waiter' \in {ws, rejectWaiters(ws, r, {"snapshot"})}
    BY <1>0, <2>3 DEF SnapshotPathEffect, TypeOK
  <2>5. \A d \in Callers :
          \/ waiter'[d] = ws[d]
          \/ /\ ws[d].state = "waiting"
             /\ waiter'[d] = [ws[d] EXCEPT !.state = "error"]
    BY <2>1, <2>4 DEF rejectWaiters, Waits
  <2>6. /\ durability[r] # Absent
        /\ ~Promise!isDurabilityAtLeast(durability[r], target)
    BY <1>0, <2>2, SameOrder DEF Reached, MustRefuse, Known, Absent, Levels
  <2>7. Promise!Truthful(waiter'[c], r, target)
    <3>1. CASE waiter'[c] = ws[c]
      BY <2>1, <2>6, <3>1 DEF Promise!Absent, Absent
    <3>2. CASE waiter'[c] = [ws[c] EXCEPT !.state = "error"]
      <4>1. waiter'[c] = [state |-> "error", revision |-> r, target |-> target,
                          achieved |-> Absent]
        BY <2>1, <3>2
      <4> QED BY <4>1
    <3> QED BY <2>5, <3>1, <3>2
  <2>8. \A d \in Callers \ {c} : Promise!Unmoved(d) \/ Promise!Refused(d)
    BY <2>1, <2>5
  <2> QED BY <1>0, <2>4, <2>7, <2>8
<1> QED BY <1>1, <1>2, <1>3 DEF WhenDurable

(* A checkpoint may refuse those who wait for it, and raises nothing. *)
LEMMA CheckpointRefuses ==
  ASSUME IInv, NEW r \in Revisions, Checkpoint(r)
  PROVE  Promise!Refuse
<1>1. TypeOK
  BY DEF IInv
<1>2. SnapshotPathEffect(r, durability[r], waiter)
  BY <1>1, CheckpointEffect DEF Checkpoint
<1> QED
  BY <1>1, <1>2, RejectionsRefuse
     DEF SnapshotPathEffect, TypeOK, Checkpoint, commitVars

(* Initial states map to initial states. *)
LEMMA InitPromises == Init => Promise!PromiseInit
BY DEF Init, Promise!PromiseInit, Promise!Line, Promise!Pending, Revisions,
   Promise!Absent, Absent

(* Every step maps to a step of the promise or to a stutter. *)
LEMMA NextPromises ==
  IInv /\ [Next]_vars => [Promise!PromiseNext]_(Promise!promiseVars)
<1> SUFFICES ASSUME IInv, [Next]_vars
             PROVE  [Promise!PromiseNext]_(Promise!promiseVars)
  OBVIOUS
<1> USE DEF Promise!PromiseNext
<1>0. Promise!Line = Revisions /\ Promise!Levels = Levels
  BY DEF Promise!Line, Revisions, Promise!Levels, Levels
<1>1. CASE \E t \in Transactions, base \in Revisions : Apply(t, base)
  BY <1>1, ApplyCommits
<1>2. CASE WalFails
  BY <1>2, RejectionsRefuse DEF WalFails, commitVars
<1>3. CASE FsyncOk
  <2>1. pendingWal \in Revisions
    BY <1>3 DEF IInv, TypeOK, PendingWalIsHead, FsyncOk
  <2> QED BY <1>0, <1>3, <2>1, FsyncOkClimbs
<1>4. ASSUME NEW r \in Revisions, SnapshotCommitted(r)
      PROVE  [Promise!PromiseNext]_(Promise!promiseVars)
  BY <1>0, <1>4, SnapshotCommittedClimbs
<1>5. ASSUME NEW r \in Revisions, NEW reason, SnapshotFails(r, reason)
      PROVE  [Promise!PromiseNext]_(Promise!promiseVars)
  BY <1>5, RejectionsRefuse DEF SnapshotFails, commitVars
<1>6. ASSUME NEW c \in Callers, NEW r \in Revisions, NEW target \in Levels,
             WhenDurable(c, r, target)
      PROVE  [Promise!PromiseNext]_(Promise!promiseVars)
  BY <1>0, <1>6, WhenDurableAsks
<1>7. ASSUME NEW r \in Revisions, Checkpoint(r)
      PROVE  [Promise!PromiseNext]_(Promise!promiseVars)
  BY <1>7, CheckpointRefuses
<1>8. CASE Dispose
  BY <1>8, DisposeRefuses
<1>9. CASE ApplyFindsStaleLease
  BY <1>9, RejectionsRefuse DEF ApplyFindsStaleLease, commitVars
<1>10. CASE \/ AppendOk \/ AwaitSnapshots \/ FinishDispose \/ LoseLease
            \/ \E r \in Revisions : deleteSnapshotTask(r)
            \/ UNCHANGED vars
  BY <1>10 DEF AppendOk, AwaitSnapshots, FinishDispose, LoseLease,
     deleteSnapshotTask, vars, commitVars, Promise!promiseVars
<1> QED
  BY <1>1, <1>2, <1>3, <1>4, <1>5, <1>6, <1>7, <1>8, <1>9, <1>10,
     TargetsAssumption
     DEF Next, Continuation, Environment, WalSettles, SnapshotSettles

(* The Authority keeps DurabilityPromise: requests are kept in the very    *)
(* step that reaches their level, levels climb one rung at a time, and the *)
(* mainline grows only on a durable head and never once sealed.            *)
THEOREM KeepsItsPromise == Spec => ImplementsPromise
BY InitPromises, NextPromises, Invariance, PTL
   DEF Spec, ImplementsPromise, Promise!PromiseSpec

=============================================================================
