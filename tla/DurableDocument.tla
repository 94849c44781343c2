-------------------------- MODULE DurableDocument --------------------------
(***************************************************************************)
(* One document's storage, and the Authorities that own it one after       *)
(* another: lease and fencing epoch, WAL, Snapshot files and manifest,     *)
(* crash, recovery and reopening.  An Authority that lost its lease keeps  *)
(* running next to its successor and its port calls keep arriving.         *)
(*                                                                         *)
(* Authority e owns fencing epoch e.  Of its own machinery (waiters,       *)
(* Snapshot tasks, disposal: DocumentAuthority) only what reaches storage  *)
(* is kept here; there, a port answers anything; here, storage decides.    *)
(* A port call of in-memory-durable-storage.ts pauses first, then checks   *)
(* the fence and acts in one turn: that turn is an action.                 *)
(***************************************************************************)
EXTENDS Durability, WalRecovery

CONSTANTS
  MaxEpoch,              \* how many Authorities open the document
  MaxSequence,           \* the longest mainline
  Nothing,               \* `undefined` and `null`
  FallbackLevel,         \* durability of the fallback Revision
  Checkpointed,          \* sequences of the Revisions callers checkpoint
  CrashTearsFrame,       \* may a crash leave part of an un-fsynced frame?
  TailSurvivesTakeover   \* may an Authority open the document while frames
                         \* of its predecessor sit un-fsynced in the log?

ASSUME EpochAssumption == MaxEpoch \in Nat \ {0}
ASSUME LengthAssumption == MaxSequence \in Nat
ASSUME FallbackAssumption == FallbackLevel \in {"wal", "snapshot"}
ASSUME CheckpointedAssumption == Checkpointed \subseteq Nat
ASSUME SwitchAssumption ==
  CrashTearsFrame \in BOOLEAN /\ TailSurvivesTakeover \in BOOLEAN

VARIABLES
  lease,         \* LeaseState: the last epoch, and whether it is owned
  volatileWal,   \* WalState.volatileBytes, by frames
  durableWal,    \* WalState.durableBytes, by frames
  temporaries,   \* #temporarySnapshots
  synced,        \* #syncedTemporarySnapshots
  snapshots,     \* #snapshots
  manifest,      \* the document's SnapshotManifest
  phase,         \* how far Authority e has come
  recovery,      \* what e's recovery has read so far
  line,          \* the Revisions e knows, oldest first; the last is its head
  level,         \* their durability
  mode,          \* e's #mode
  walStage,      \* which port call e's #persistWal awaits
  commit         \* which port call e's commit of a Snapshot awaits

walFiles      == <<volatileWal, durableWal>>
temporaryFiles == <<temporaries, synced>>
storage       == <<walFiles, temporaryFiles, snapshots, manifest>>
authority     == <<line, level, mode, walStage, commit>>
opening       == <<phase, recovery>>
vars == <<lease, volatileWal, durableWal, temporaries, synced, snapshots,
          manifest, phase, recovery, line, level, mode, walStage, commit>>

Epochs == 1..MaxEpoch

(* Revision IDs come from a trusted allocator, Transaction IDs from a      *)
(* client that never reuses one: epoch and sequence name both.             *)
RevisionIds == (0..MaxEpoch) \X (0..MaxSequence)

Revision == [revisionId       : RevisionIds,
             parentRevisionId : RevisionIds \cup {Nothing},
             transactionId    : RevisionIds,
             sequence         : 0..MaxSequence]

ASSUME AbsenceAssumption == Nothing \notin Revision
ASSUME TornAssumption == Torn \notin Revision

(* The fallback that recovery starts from while there is no manifest.      *)
Genesis == [revisionId |-> <<0, 0>>, parentRevisionId |-> Nothing,
            transactionId |-> <<0, 0>>, sequence |-> 0]

head(e) == line[e][Len(line[e])]
Indices(e) == 1..Len(line[e])

NothingRead == [base |-> Genesis, level |-> FallbackLevel, wal |-> <<>>]

IdleCommit == [stage |-> "idle", generation |-> 0]
CommitStages == {"idle", "write", "fsync", "validate", "rename",
                 "read-manifest", "switch"}

Frames == Seq(Revision \cup {Torn})

TypeOK ==
  /\ lease \in [epoch : 0..MaxEpoch, owned : BOOLEAN]
  /\ volatileWal \in Frames
  /\ durableWal \in Frames
  /\ temporaries \subseteq RevisionIds
  /\ synced \subseteq RevisionIds
  /\ snapshots \subseteq RevisionIds
  /\ manifest \in [revision : Revision \cup {Nothing}, generation : Nat]
  /\ phase \in [Epochs -> {"absent", "reading-base", "reading-wal",
                           "truncating", "opening", "serving", "stopped"}]
  /\ recovery \in [Epochs -> [base  : Revision,
                              level : {"wal", "snapshot"},
                              wal   : Frames]]
  /\ line \in [Epochs -> Seq(Revision)]
  /\ level \in [Epochs -> Seq(Levels)]
  /\ commit \in [Epochs -> Seq([stage : CommitStages, generation : Nat])]
  /\ \A e \in Epochs : Len(level[e]) = Len(line[e])
                     /\ Len(commit[e]) = Len(line[e])
  /\ mode \in [Epochs -> {"read-write", "read-only"}]
  /\ walStage \in [Epochs -> {"idle", "append", "fsync"}]

-----------------------------------------------------------------------------
(* The lease. *)

isFenceCurrent(e) == lease = [epoch |-> e, owned |-> TRUE]

(* Broken variant: storage trusts every caller. *)
fenceHolds_Trusting(e) == TRUE

fenceHolds(e) == isFenceCurrent(e)

(* acquire(), by someone who then runs recoverDocument() with the fence.   *)
Acquire(e) ==
  /\ ~lease.owned
  /\ e = lease.epoch + 1
  /\ TailSurvivesTakeover \/ volatileWal = durableWal
  /\ lease' = [epoch |-> e, owned |-> TRUE]
  /\ phase' = [phase EXCEPT ![e] = "reading-base"]
  /\ UNCHANGED <<storage, recovery, authority>>

(* release(), by dispose() or by whoever holds the lease besides.          *)
Release ==
  /\ lease.owned
  /\ lease' = [lease EXCEPT !.owned = FALSE]
  /\ UNCHANGED <<storage, opening, authority>>

-----------------------------------------------------------------------------
(* recoverDocument() and the constructor of the Authority.                 *)

hasManifest == manifest.revision # Nothing
currentBase == IF hasManifest THEN manifest.revision ELSE Genesis

(* readLatest(): manifest, then the file it names.  Files are never        *)
(* removed, so the two reads are one.                                      *)
ReadBase(e) ==
  /\ phase[e] = "reading-base"
  /\ hasManifest => manifest.revision.revisionId \in snapshots
  /\ recovery' = [recovery EXCEPT ![e] =
       [base  |-> currentBase,
        level |-> IF hasManifest THEN "snapshot" ELSE FallbackLevel,
        wal   |-> <<>>]]
  /\ phase' = [phase EXCEPT ![e] = "reading-wal"]
  /\ UNCHANGED <<lease, storage, authority>>

ReadWal(e) ==
  /\ phase[e] = "reading-wal"
  /\ ~isCorrupt(durableWal)
  /\ recovery' = [recovery EXCEPT ![e].wal = durableWal]
  /\ phase' = [phase EXCEPT ![e] = IF hasTruncatedTail(durableWal)
                                     THEN "truncating" ELSE "opening"]
  /\ UNCHANGED <<lease, storage, authority>>

(* Broken variant: the last complete frame is cut off with the torn one.   *)
TruncateTail_OneFrameTooMany(e) ==
  /\ phase[e] = "truncating"
  /\ fenceHolds(e)
  /\ Len(durableWal) = Len(recovery[e].wal)
  /\ durableWal' = SubSeq(durableWal, 1, Len(durableWal) - 2)
  /\ volatileWal' = durableWal'
  /\ phase' = [phase EXCEPT ![e] = "opening"]
  /\ UNCHANGED <<lease, temporaryFiles, snapshots, manifest, recovery,
                 authority>>

(* truncateDurable() *)
TruncateTail(e) ==
  /\ phase[e] = "truncating"
  /\ fenceHolds(e)
  /\ Len(durableWal) = Len(recovery[e].wal)
  /\ durableWal' = SubSeq(durableWal, 1, Len(durableWal) - 1)
  /\ volatileWal' = durableWal'
  /\ phase' = [phase EXCEPT ![e] = "opening"]
  /\ UNCHANGED <<lease, temporaryFiles, snapshots, manifest, recovery,
                 authority>>

(* replayRecords(), and a new Authority at the recovered head. *)
Open(e) ==
  /\ phase[e] = "opening"
  /\ isRecoverable(recovery[e].base, recovery[e].wal)
  /\ phase' = [phase EXCEPT ![e] = "serving"]
  /\ LET start == recoveredHead(recovery[e].base, recovery[e].wal)
     IN  /\ line' = [line EXCEPT ![e] = <<start>>]
         /\ level' = [level EXCEPT ![e] =
              <<IF start = recovery[e].base THEN recovery[e].level
                                            ELSE "wal">>]
  /\ commit' = [commit EXCEPT ![e] = <<IdleCommit>>]
  /\ mode' = [mode EXCEPT ![e] = "read-write"]
  /\ recovery' = [recovery EXCEPT ![e] = NothingRead]
  /\ UNCHANGED <<lease, storage, walStage>>

(* Any of recovery's reads and checks may fail: RECOVERY_REQUIRED. *)
FailRecovery(e) ==
  /\ phase[e] \in {"reading-base", "reading-wal", "truncating", "opening"}
  /\ phase[e] = "opening"
       => ~isRecoverable(recovery[e].base, recovery[e].wal)
  /\ phase' = [phase EXCEPT ![e] = "stopped"]
  /\ recovery' = [recovery EXCEPT ![e] = NothingRead]
  /\ UNCHANGED <<lease, storage, authority>>

-----------------------------------------------------------------------------
(* Commits and the WAL. *)

Apply(e) ==
  /\ phase[e] = "serving"
  /\ mode[e] = "read-write"
  /\ isFenceCurrent(e)
  /\ walStage[e] = "idle"
  /\ head(e).sequence < MaxSequence
  /\ LET sequence == head(e).sequence + 1
     IN  line' = [line EXCEPT ![e] = Append(@,
                    [revisionId       |-> <<e, sequence>>,
                     parentRevisionId |-> head(e).revisionId,
                     transactionId    |-> <<e, sequence>>,
                     sequence         |-> sequence])]
  /\ level' = [level EXCEPT ![e] = Append(@, "memory")]
  /\ commit' = [commit EXCEPT ![e] = Append(@, IdleCommit)]
  /\ walStage' = [walStage EXCEPT ![e] = "append"]
  /\ UNCHANGED <<lease, storage, opening, mode>>

append(e) ==
  /\ walStage[e] = "append"
  /\ fenceHolds(e)
  /\ volatileWal' = Append(volatileWal, head(e))
  /\ walStage' = [walStage EXCEPT ![e] = "fsync"]
  /\ UNCHANGED <<lease, durableWal, temporaryFiles, snapshots, manifest,
                 opening, line, level, mode, commit>>

(* Broken variant: `wal` is acknowledged without moving a byte. *)
fsync_MovesNothing(e) ==
  /\ walStage[e] = "fsync"
  /\ fenceHolds(e)
  /\ level' = [level EXCEPT ![e][Len(line[e])] = "wal"]
  /\ walStage' = [walStage EXCEPT ![e] = "idle"]
  /\ UNCHANGED <<lease, storage, opening, line, mode, commit>>

(* The whole log becomes durable, and e's head is acknowledged as `wal`.   *)
fsync(e) ==
  /\ walStage[e] = "fsync"
  /\ fenceHolds(e)
  /\ durableWal' = volatileWal
  /\ level' = [level EXCEPT ![e][Len(line[e])] = "wal"]
  /\ walStage' = [walStage EXCEPT ![e] = "idle"]
  /\ UNCHANGED <<lease, volatileWal, temporaryFiles, snapshots, manifest,
                 opening, line, mode, commit>>

(* A stale fence or an I/O error at either port call: #failWal. *)
FailWal(e) ==
  /\ walStage[e] \in {"append", "fsync"}
  /\ walStage' = [walStage EXCEPT ![e] = "idle"]
  /\ mode' = [mode EXCEPT ![e] = "read-only"]
  /\ UNCHANGED <<lease, storage, opening, line, level, commit>>

-----------------------------------------------------------------------------
(* Snapshots: AtomicSnapshotStore.commit(), one port call after another,   *)
(* for Revision line[e][i].  Several commits of one Authority may run.     *)

AtStage(e, i, stage) == i \in Indices(e) /\ commit[e][i].stage = stage

GoTo(e, i, stage) == commit' = [commit EXCEPT ![e][i].stage = stage]

key(e, i) == line[e][i].revisionId

Checkpoint(e, i) ==
  /\ phase[e] = "serving"
  /\ AtStage(e, i, "idle")
  /\ line[e][i].sequence \in Checkpointed
  /\ level[e][i] = "wal"
  /\ mode[e] = "read-write"
  /\ isFenceCurrent(e)
  /\ GoTo(e, i, "write")
  /\ UNCHANGED <<lease, storage, opening, line, level, mode, walStage>>

writeTemporary(e, i) ==
  /\ AtStage(e, i, "write")
  /\ fenceHolds(e)
  /\ temporaries' = temporaries \cup {key(e, i)}
  /\ GoTo(e, i, "fsync")
  /\ UNCHANGED <<lease, walFiles, synced, snapshots, manifest, opening, line,
                 level, mode, walStage>>

fsyncTemporary(e, i) ==
  /\ AtStage(e, i, "fsync")
  /\ fenceHolds(e)
  /\ key(e, i) \in temporaries
  /\ synced' = synced \cup {key(e, i)}
  /\ GoTo(e, i, "validate")
  /\ UNCHANGED <<lease, walFiles, temporaries, snapshots, manifest, opening,
                 line, level, mode, walStage>>

(* Reading back is not fenced. *)
validateTemporary(e, i) ==
  /\ AtStage(e, i, "validate")
  /\ key(e, i) \in temporaries
  /\ GoTo(e, i, "rename")
  /\ UNCHANGED <<lease, storage, opening, line, level, mode, walStage>>

atomicRename(e, i) ==
  /\ AtStage(e, i, "rename")
  /\ fenceHolds(e)
  /\ key(e, i) \in temporaries \cap synced
  /\ snapshots' = snapshots \cup {key(e, i)}
  /\ temporaries' = temporaries \ {key(e, i)}
  /\ synced' = synced \ {key(e, i)}
  /\ GoTo(e, i, "read-manifest")
  /\ UNCHANGED <<lease, walFiles, manifest, opening, line, level, mode,
                 walStage>>

(* validateManifestAdvance() *)
mayAdvanceTo(revision) ==
  hasManifest =>
    \/ manifest.revision.sequence < revision.sequence
    \/ manifest.revision = revision

readManifest(e, i) ==
  /\ AtStage(e, i, "read-manifest")
  /\ mayAdvanceTo(line[e][i])
  /\ commit' = [commit EXCEPT ![e][i] = [stage |-> "switch",
                                         generation |-> manifest.generation]]
  /\ UNCHANGED <<lease, storage, opening, line, level, mode, walStage>>

(* Broken variant: the switch is not a compare-and-switch.                 *)
switchManifest_Blindly(e, i) ==
  /\ AtStage(e, i, "switch")
  /\ fenceHolds(e)
  /\ manifest' = [revision |-> line[e][i],
                  generation |-> commit[e][i].generation + 1]
  /\ level' = [level EXCEPT ![e][i] = "snapshot"]
  /\ commit' = [commit EXCEPT ![e][i] = IdleCommit]
  /\ UNCHANGED <<lease, walFiles, temporaryFiles, snapshots, opening, line,
                 mode, walStage>>

(* The manifest moves, and line[e][i] is acknowledged as `snapshot`. *)
switchManifest(e, i) ==
  /\ AtStage(e, i, "switch")
  /\ fenceHolds(e)
  /\ manifest.generation = commit[e][i].generation
  /\ hasManifest => manifest.revision.sequence =< line[e][i].sequence
  /\ key(e, i) \in snapshots
  /\ manifest' = [revision |-> line[e][i],
                  generation |-> manifest.generation + 1]
  /\ level' = [level EXCEPT ![e][i] = "snapshot"]
  /\ commit' = [commit EXCEPT ![e][i] = IdleCommit]
  /\ UNCHANGED <<lease, walFiles, temporaryFiles, snapshots, opening, line,
                 mode, walStage>>

(* Any of those port calls may fail: on I/O, a conflict, a missing file or *)
(* a stale fence.  Only the last, where the call is fenced, seals.         *)
FailSnapshot(e, i) ==
  /\ i \in Indices(e)
  /\ commit[e][i].stage # "idle"
  /\ mode' = [mode EXCEPT ![e] =
       IF commit[e][i].stage \notin {"validate", "read-manifest"}
            /\ ~fenceHolds(e)
         THEN "read-only" ELSE @]
  /\ commit' = [commit EXCEPT ![e][i] = IdleCommit]
  /\ UNCHANGED <<lease, storage, opening, line, level, walStage>>

(* Apply and Checkpoint find the lease lost. *)
NoticeLostLease(e) ==
  /\ phase[e] = "serving"
  /\ mode[e] = "read-write"
  /\ ~isFenceCurrent(e)
  /\ mode' = [mode EXCEPT ![e] = "read-only"]
  /\ UNCHANGED <<lease, storage, opening, line, level, walStage, commit>>

-----------------------------------------------------------------------------
(* The world outside. *)

(* Every process stops; un-fsynced frames and temporary files are lost,    *)
(* except, perhaps, the first bytes of a frame.                            *)
Crash ==
  /\ lease' = [lease EXCEPT !.owned = FALSE]
  /\ \/ durableWal' = durableWal
     \/ /\ CrashTearsFrame
        /\ Len(volatileWal) > Len(durableWal)
        /\ durableWal' = Append(durableWal, Torn)
  /\ volatileWal' = durableWal'
  /\ temporaries' = {}
  /\ synced' = {}
  /\ phase' = [e \in Epochs |->
                 IF phase[e] = "absent" THEN "absent" ELSE "stopped"]
  /\ mode' = [e \in Epochs |-> "read-only"]
  /\ walStage' = [e \in Epochs |-> "idle"]
  /\ commit' = [e \in Epochs |-> [i \in Indices(e) |-> IdleCommit]]
  /\ recovery' = [e \in Epochs |-> NothingRead]
  /\ UNCHANGED <<snapshots, manifest, line, level>>

(* Compaction: the log loses the prefix the manifest covers. *)
Compact ==
  /\ volatileWal = durableWal
  /\ hasManifest
  /\ \E n \in 1..Len(durableWal) :
       /\ durableWal[n] = manifest.revision
       /\ durableWal' = SubSeq(durableWal, n + 1, Len(durableWal))
  /\ volatileWal' = durableWal'
  /\ UNCHANGED <<lease, temporaryFiles, snapshots, manifest, opening,
                 authority>>

-----------------------------------------------------------------------------
Init ==
  /\ lease = [epoch |-> 0, owned |-> FALSE]
  /\ volatileWal = <<>>
  /\ durableWal = <<>>
  /\ temporaries = {}
  /\ synced = {}
  /\ snapshots = {}
  /\ manifest = [revision |-> Nothing, generation |-> 0]
  /\ phase = [e \in Epochs |-> "absent"]
  /\ recovery = [e \in Epochs |-> NothingRead]
  /\ line = [e \in Epochs |-> <<>>]
  /\ level = [e \in Epochs |-> <<>>]
  /\ mode = [e \in Epochs |-> "read-only"]
  /\ walStage = [e \in Epochs |-> "idle"]
  /\ commit = [e \in Epochs |-> <<>>]

Recover(e) ==
  \/ ReadBase(e)
  \/ ReadWal(e)
  \/ TruncateTail(e)
  \/ Open(e)
  \/ FailRecovery(e)

PersistWal(e) == append(e) \/ fsync(e) \/ FailWal(e)

CommitSnapshot(e, i) ==
  \/ writeTemporary(e, i)
  \/ fsyncTemporary(e, i)
  \/ validateTemporary(e, i)
  \/ atomicRename(e, i)
  \/ readManifest(e, i)
  \/ switchManifest(e, i)
  \/ FailSnapshot(e, i)

Next ==
  \/ \E e \in Epochs :
       \/ Acquire(e)
       \/ Recover(e)
       \/ Apply(e)
       \/ PersistWal(e)
       \/ NoticeLostLease(e)
       \/ \E i \in Indices(e) : Checkpoint(e, i) \/ CommitSnapshot(e, i)
  \/ Release
  \/ Crash
  \/ Compact

Spec == Init /\ [][Next]_vars

-----------------------------------------------------------------------------
(* Properties. *)

AcknowledgedBy(e, target) ==
  {line[e][i] : i \in {j \in Indices(e) :
                         isDurabilityAtLeast(level[e][j], target)}}

Acknowledged(target) == UNION {AcknowledgedBy(e, target) : e \in Epochs}

(* Every Revision acknowledged as `wal` is still in the log, or covered by *)
(* the manifest.                                                           *)
AckedIsInStorage ==
  \A r \in Acknowledged("wal") :
    \/ r = currentBase
    \/ r.sequence < currentBase.sequence
    \/ \E n \in 1..Len(durableWal) : durableWal[n] = r

(* A promise of `wal` survives anything: recovery from what is on disk now *)
(* would succeed and reach or pass every Revision acknowledged as `wal`.   *)
AckedIsRecoverable ==
  /\ isRecoverable(currentBase, durableWal)
  /\ AckedIsInStorage

(* No split brain: Authorities that overlap or follow one another never    *)
(* acknowledge two different Revisions for one place on the mainline.      *)
NoSplitBrain ==
  \A r, s \in Acknowledged("wal") : r.sequence = s.sequence => r = s

(* A promise of `snapshot` is kept by the manifest, which names a complete *)
(* file of an acknowledged Revision and is not behind any of them.         *)
ManifestIsBacked ==
  /\ hasManifest =>
       /\ manifest.revision.revisionId \in snapshots
       /\ manifest.revision \in Acknowledged("snapshot")
  /\ \A r \in Acknowledged("snapshot") \ {Genesis} :
       /\ hasManifest
       /\ r.sequence =< manifest.revision.sequence
       /\ r.revisionId \in snapshots

(* What a reopening would find never goes back, and moves on one child at  *)
(* a time: no crash, late port call or compaction rewrites history.        *)
restartPoint == recoveredHead(currentBase, durableWal)

RestartPointAdvances ==
  [][restartPoint' # restartPoint => continues(restartPoint, restartPoint')]_vars

=============================================================================
