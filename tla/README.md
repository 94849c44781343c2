# Verification of nireco-editor

TLA+ modules, TLC configurations and TLAPS proofs for the parts of
nireco-editor that carry its own logic: the document Authority, its storage and
recovery, the transaction kernel with the cache it trusts, the workspace Models
that follow an Authority, the registry that hands those Models out, the paged
reads that sessions make through them, and the service through which agents
draft proposals. Paths below are relative to
`src/src/` unless they start with `adr/`, `docs/` or `tests/` (then to `src/`).

Contents:

1. [The system](#1-the-system)
2. [Inventory of the components](#2-inventory-of-the-components)
3. [Modules and how they correspond to the code](#3-modules-and-how-they-correspond-to-the-code)
4. [Runs](#4-runs)
5. [Disagreements between the code and its documents](#5-disagreements-between-the-code-and-its-documents)
6. [Proofs](#6-proofs)
7. [What is not modelled](#7-what-is-not-modelled)
8. [Plan](#8-plan)

## 1. The system

nireco-editor is the core of a manuscript editor: structured documents change
by *transactions*, every accepted transaction yields a new immutable
*Revision*, and Revisions form one *mainline* per document.

    callers ── create/resolve/unload ──> Model registry ── constructs ──> Model
       │                                                                   │
       │ applyTransaction()                    subscribe / getHead /        │
       └──────────────────────────────────────> getSnapshot / apply ───────┤
                                                                           v
                                                        SingleDocumentAuthority
                                                          │            │
                                       wal.append, fsync  │            │ snapshots.commit
                                                          v            v
                                                DurableStorage  <  AtomicSnapshotStore
                                                   ^   (lease and fencing epoch)
                                                   │
                                             recoverDocument()

- One `SingleDocumentAuthority` per document accepts transactions. A commit is
  visible in memory at once (`memory`), becomes `wal` when its record has been
  appended and fsynced, and `snapshot` when a Snapshot of it has been
  committed. Callers may wait for a level with `whenDurable()`.
- The Authority holds a *lease* with a *fencing epoch*. Every write to storage
  carries the epoch, and storage refuses a write whose epoch is not current.
- After a crash or a lost lease, `recoverDocument()` reads the newest Snapshot
  through the manifest, replays the WAL on it, cuts off a torn tail, and yields
  the head from which a new Authority starts.
- What a transaction does to a document is the business of the *kernel*: a
  function of the head and the request. It keeps no state, but for speed it
  trusts a process-wide *cache* of verified Snapshots, and patches the index and
  the canonical payload found there instead of computing them again.
- A workspace holds at most one *Model* per URI. A Model learns of Revisions
  from notifications of its Authority and from the answers to its own calls.
- An agent works through the *Comet service*: it opens a session bound to one
  Revision, creates a draft *proposal* and stages semantic edits into it. A
  proposal then goes through validation and review, and groups of its changes
  are chosen.

Everything runs on one JavaScript event loop. There are no data races; what
interleaves is the *turns* between awaits, and several instances (Authorities
of one document, calls of one registry) interleave freely.

## 2. Inventory of the components

For each: state, operations, what is hard, and what correctness means.
`PROJECT.json` lists the same components with their files and status, and under
`hazards` the lines where each of these difficulties bites.

### Document Authority (`workspace/document-authority/single-document-authority.ts`) — modelled

- State: the head, the Revisions with their durability *sidecars*, used
  transaction identities, read-write or read-only mode, the one pending WAL
  Revision, terminal WAL failures, last Snapshot failures, the map of running
  Snapshot tasks, the list of `whenDurable()` waiters, disposal.
- Operations: `apply`, `whenDurable`, `checkpoint`, `dispose`; continuations of
  `#persistWal` (append, fsync), `#failWal`, `#promoteDurability`, the Snapshot
  task, the microtask that removes a settled task, `whenIdle`.
- Hard: `apply` returns before its WAL write is over; checkpoints, retries,
  promotion and disposal interleave; a waiter is settled by whichever
  continuation comes along; a settled Snapshot task stays in its map for one
  more microtask.
- Correct when: at most one Revision is memory-only; a level once reported is
  reached and never falls; every waiter is settled, with the truth; a WAL
  failure is final; the lease is released only after the last write.

### Lease and fencing (`.../authority-lease.ts`) — modelled

- State: last epoch issued, whether it is owned. Operations: acquire, release,
  `isFenceCurrent`.
- Hard: an Authority that lost its lease does not know; its port calls arrive
  whenever they like, next to its successor's.
- Correct when: of two Authorities only one can make something durable.

### Durable storage and Snapshot store (`storage/in-memory-durable-storage.ts`, `storage/snapshot-store.ts`) — modelled / partly

- State: volatile and durable WAL bytes, temporary Snapshot files with a
  "synced" mark, committed Snapshot files, the manifest with its generation.
- Operations: append, fsync, truncateDurable, writeTemporary, fsyncTemporary,
  read-back, atomicRename, readManifest, switchManifest, crash; `commit()` of
  the store is six of them in a row.
- Hard: every call first pauses and then checks the fence; any call may fail;
  a crash loses un-fsynced frames and temporary files, and may tear a frame;
  several commits of different (or the same) Revisions run side by side.
- Correct when: what was acknowledged is recoverable after any crash; the
  manifest names a complete file and never moves back.

### WAL codec, recovery, replay (`storage/wal-record-codec.ts`, `storage/recovery.ts`, `storage/transaction-replay.ts`) — modelled / partly

- State: none of their own; recovery goes through phases (base, WAL,
  truncation, replay) with awaits in between.
- Operations: the codec frames records with a length and a checksum; when the
  last frame reaches past the end of the log, `decode` searches for a later
  complete frame, within a budget, to tell a torn write from damage.
- Hard: recovery itself writes, can lose its lease and crash half way; records
  at or below the manifest's sequence are skipped, but must still connect.
- Correct when: recovery yields exactly a prefix of history that contains every
  acknowledged Revision, and repeating it does not go back.

### Authority-backed Model (`workspace/authority-backed-model.ts`) — modelled

- State: own head, Snapshots it has, a promise chain of refresh and install
  tasks, pending `applyTransaction()` calls, disposal.
- Operations: construction and synchronisation, notification, refresh, install
  of a commit result, `applyTransaction`, `dispose`.
- Hard: the result of a call may arrive after notifications of later commits;
  a refresh reads head and Snapshot across an await; disposal races all of it.
- Correct when: the head never goes back, a caller that has its answer can read
  its Revision, no notification is lost, and disposal drains.

### Model registry (`workspace/in-memory-model-registry.ts` and the types around it) — modelled

- State: registered entries, pending resolutions.
- Operations: `create`, `resolve` with `#loadAndCreate`, `unload`, a Model's own
  disposal.
- Hard: `create` checks, awaits, checks, awaits and checks again; `resolve`
  joins a pending resolution that may lose against a `create`.
- Correct when: one active Model per URI (ADR-003), resolves are single-flight,
  no Model is leaked, every call ends.

### Read sessions, cursors, history and read service (`services/document-service/`) — modelled

- State: granted, expired and seen sessions; nothing else: a cursor is
  authenticated text that its holder keeps.
- Operations: open, revoke, dispose; each read resolves its session, then finds
  the Model, decodes its cursor, reads the Snapshot or walks the history, cuts a
  page, trims it to the size of a response and issues the next cursor.
- Hard: a result that a reader sees as one is spread over calls, with commits,
  disposal, recovery, expiry and revocation between them; the clock may fail or
  go back; a cursor may be presented again, late, or by somebody else.
- Correct when: the pages make up the result at one Revision, a session that is
  over stays over, and its cursors with it.

### Transaction kernel (`model/transaction/`, `.../kernel-commit-preparer.ts`, `storage/transaction-replay.ts`) — modelled

- State: none; it reads the cache and stages an entry in it.
- Operations: strict decoding with resource limits, preconditions, ReplaceText
  once and several times, rebasing of claim anchors, the hash and the inverse of
  the result; preparation of a commit; replay of a log record.
- Hard: two paths to the same result (trusting or from nothing), one Operation
  and several treated differently, coordinates of drafts that exist only between
  two Operations, the order of a dozen refusals.
- Correct when: every Revision is a valid manuscript with the hash of its content,
  exactly what the Operations say has changed, undo restores, and the log alone
  leads to the same head.

### Verified Snapshot cache (`model/document-snapshot-cache.ts`) — modelled

- State: verified and provisional entries, the derived Snapshot of each source,
  the identities of entries that may be trusted, two counters.
- Operations: cache a checked Snapshot, stage a derived one, activate it when it
  is committed, retire.
- Hard: one cache for the whole process; a derivation may be abandoned, repeated,
  or its source retired by somebody else between staging and activation.
- Correct when: what an entry says is what a computation from nothing would say;
  nothing is retained beyond the head and one derivation; counters agree.

### Position maps (`model/mapping/`) — modelled

- State: none. Operations: map a position, compose.
- Hard: affinity at the edges, deleted positions whose nearest place moves on.
- Correct when: over any number of Revisions a position stays with the text it
  leans to.

### Manuscript schema and index (`model/schema/`, `model/node/`) — modelled

- State: none. Operations: validate a document, a tree, the academic graph;
  index a document, layer replaced nodes over an index.
- Hard: identities shared between nodes and entities, references in both
  directions, an index that is patched instead of built.
- Correct when: only manuscripts pass, and a patched index answers like a new one.

### Proposals (`proposal/`) — partly

- State: the status of a proposal, its diff and validation. Operations: the
  status transitions with their conditions; the dependency closure of chosen
  groups.
- Hard: diff and validation are attached later, possibly from before the last
  edit; dependencies may be unknown or circular.
- Correct when: a validation carries only the draft it was made of into review; a
  selection is the least closed one, in the diff's order, or is refused.

### Comet integration (`integration/comet/`) — partly

- State: sessions with grants, draft proposals, idempotency records.
- Operations: handshake, openSession, readSnapshot, createProposal,
  stageSemanticEdits.
- Hard: retries after a lost answer, interleaved agents and sessions, models that
  close and a clock that goes back between two calls.
- Correct when: a mutation takes effect once and is answered the same ever after,
  every edit was made on the proposal its agent knew, and stays in the grant.

### Identifier allocation (`base/ids/uuid-v7-allocator.ts`) — partly

- State: the last identifier. Operation: allocate.
- Hard: clock and entropy are not trusted; the random field is incremented with a
  carry over fixed bits; exhaustion.
- Correct when: every identifier is a UUIDv7 greater than all before.

### Base libraries — partly; Resolve-model service, platform, entry points — not modelled

The trusted canonical UTF-8 text (`base/hash/`) is part of the kernel's modules;
hashing itself, URIs, errors and small utilities appear as equality of values.
The resolve-model service reads one registry entry, synchronously; platform code
and entry points have no state. Section 7 says more.

## 3. Modules and how they correspond to the code

| Module | Stands for |
|---|---|
| `Durability` | the three levels and their order |
| `DocumentAuthority` | one `SingleDocumentAuthority` against ports that answer anything |
| `DurabilityPromise` | abstract specification of what an Authority promises its callers |
| `DocumentAuthorityProofs` | theorems about `DocumentAuthority` |
| `WalRecovery` | the verdict of decoding and replaying a WAL, as operators |
| `WalCodec` | framing and `decode()` of the WAL codec, which yields the verdict that `WalRecovery` takes for granted |
| `DurableDocument` | one document's storage with the Authorities that own it in succession; uses `WalRecovery` |
| `DurableDocumentProofs` | theorems about `DurableDocument`, and about `WalCodec` |
| `AuthorityBackedModel` | one workspace Model and the Authority it follows |
| `AuthorityBackedModelProofs` | theorems about `AuthorityBackedModel` |
| `ModelRegistry` | the registry's calls for one URI |
| `ModelRegistryProofs` | theorems about `ModelRegistry` |
| `ReadService` | the read service with its sessions, cursors and history, and as much of Model and Authority as reads can tell |
| `ReadServiceProofs` | theorems about `ReadService` |
| `Utf16Text`, `CanonicalUtf8` | text as code units and as bytes; trusted canonical text and its patching |
| `PositionMapping` | steps, maps and composed maps of positions |
| `ClosedShapes`, `ManuscriptRules` | which objects have a valid shape, and which documents are manuscripts |
| `DocumentIndexing` | the index of a document with its replacement layers |
| `TransactionDecoder` | strict decoding of a request |
| `SnapshotCache` | the process-wide cache, as a value and its operations |
| `TransactionKernel` | `prepareKernelTransaction()`; uses all seven above |
| `Editing` | a document from opening to disposal on the real kernel and cache, and the replay of its log |
| `EditingProofs` | theorems about `Editing` and its `SnapshotCache` |
| `SnapshotCacheProofs` | theorems about what the cache holds: patched payloads, their ranges and hashes; goes on from `EditingProofs` |
| `UuidV7` | the allocator, byte by byte |
| `ProposalReview` | the status machine and the selection of change groups |
| `CometService` | the Comet service; uses `UuidV7` and `ProposalReview` |
| `Proposing` | agents at the service, and the review of what they drafted |
| `ProposingProofs` | theorems about `Proposing` and the modules under it |
| `MC...` | instances for TLC (symmetry sets); `MCStorage` puts a document's storage and a log that `decode()` reads side by side |

Definitions keep the source's names where they can. An operator whose name
carries a suffix after an underscore (`Construct_Unsynchronized`) is a *broken
variant*: the same definition with a plausible mistake. No specification uses
it; it is put in the place of the definition it varies to see that a property
notices.

The components are linked by assumption and guarantee rather than by one large
product. `DocumentAuthority` lets a port answer with any outcome its interface
allows, so what it proves holds for every storage. `DurableDocument` keeps only
that part of an Authority that reaches storage, so that several Authorities
with real storage stay within reach of TLC. `Editing` keeps what an Authority
does to documents and the cache, and leaves durability to the former two. `AuthorityBackedModel` uses an
Authority by its interface, and `ModelRegistry` uses of a Model what
`AuthorityBackedModel` shows (its `dispose()` completes: `PromisesSettle`).

### `DocumentAuthority`

*An action is one synchronous turn*: an API call up to its first await, or a
continuation between two awaits.

| Action | Code |
|---|---|
| `Apply`, `ApplyFindsStaleLease` | `apply()`: writable check, installation of the commit, start of `#persistWal`; or the Authority finds that it has lost its lease |
| `AppendOk`, `FsyncOk`, `WalFails` | the two awaits in `#persistWal`; success promotes the Revision (settle waiters, schedule Snapshots), failure runs `#failWal` |
| `WhenDurable` | `whenDurable()`: answer at once, refuse, or register a waiter (and schedule) |
| `Checkpoint` | `checkpoint()` with `#getOrStartCheckpoint` |
| `SnapshotCommitted`, `SnapshotFails`, `deleteSnapshotTask` | the end of a Snapshot task, and the microtask that deletes its map entry |
| `Dispose`, `AwaitSnapshots`, `FinishDispose` | `dispose()`: reject waiters, await the WAL write and the captured Snapshot tasks, release the lease |
| `LoseLease` | external: somebody else revokes the lease, as `tests/unit/durability-authority.test.ts` does |

Abstractions, and why they are harmless:

- A Revision is its sequence number: `checkWritable` demands that a
  transaction's base be the head, so an Authority's mainline has no forks.
- `MaxSequence` is the last sequence number for which
  `Number.isSafeInteger` holds; a commit beyond it is refused as in the code.
- Listeners, the Snapshot cache, deep freezing and request-shape checks change
  nothing the model keeps. Calls that are rejected without a state change are
  stuttering steps.
- Microtasks are not ordered among each other. The code fixes an order, but the
  settling of a port's promise only reads state of the port, and every action
  re-reads the Authority's state, so more orders are explored than can happen;
  the one place where the order decides (the settled Snapshot task) is a state
  of its own.

### `WalRecovery` and `DurableDocument`

A WAL is a sequence of frames: a record, or `Torn` for what a crash left of an
un-fsynced one. `WalRecovery` gives the verdict of decode and replay: corrupt,
truncated tail, recoverable, recovered head. It checks identity, continuity of
sequence and parent, the boundary with the base, and distinct transactions, in
the terms of `recovery.ts`.

| Action | Code |
|---|---|
| `Acquire`, `Release` | `authority-lease.ts` |
| `ReadBase`, `ReadWal`, `TruncateTail`, `Open`, `FailRecovery` | `recoverDocument()` between its awaits |
| `Apply`, `append`, `fsync`, `FailWal` | commit and `#persistWal`, with storage deciding |
| `Checkpoint`, `writeTemporary` … `switchManifest`, `FailSnapshot` | `AtomicSnapshotStore.commit()`, one port call per action |
| `NoticeLostLease` | an Authority discovers that it is fenced |
| crash, compaction | external: what the tests do with `crash()` and `seedDurableWal()` |

- A port call of `in-memory-durable-storage.ts` pauses, then checks the fence
  and acts in one turn. That turn is the action; the pause is the freedom to
  take it later.
- `readLatest()` reads the manifest, then the file it names. Files are never
  removed, so the two reads are one action.
- A crash is `storage.crash()` with every process stopping: un-fsynced frames
  and temporary files are gone, and when `CrashTearsFrame` part of one frame
  may stay.
- Transaction identities are never reused. Whether a client may replay one
  across a restart is a hazard left to the plan.
- `TailSurvivesTakeover = FALSE` restricts the environment: a document is
  reopened only when no un-fsynced frame of its previous Authority is left in
  the log, as all tests of the repository do (they crash the storage first).
  Without that restriction recovery refuses a log that holds acknowledged data,
  see section 5; section 6 says which properties need the restriction.

### `WalCodec`

A log is a sequence of *cells*: a length, a checksum, and the cells of a payload.
`AppendFrame` is `encode()` and a completed write, `Tear` a crash in the middle of
one, `Damage` a change of one stored cell; then `decode()` runs, one action per
branch of its loop (`AtEnd`, `IncompleteHeader`, `InvalidLength`,
`IncompletePayload`, `CompletePayload`). `findCompleteCanonicalFrameAfter()` is the
predicate `resyncs`: some offset in its range ends the search, because a complete
frame starts there or because the budget of offsets or of checksummed cells is
used up, which `decode()` treats alike.

`starts` holds the offsets at which the frames of `written` start, and where the last of
them ends; like `written` and `torn` it is what a reader of the log wants to know and
`decode()` does not.

A checksum fits its own payload only (CRC collisions are left out), and a cell
of text read as a length is larger than any payload: four bytes of canonical
JSON, which has no control characters, make a number above 2^29, while the
largest payload has 2^24 bytes. A payload whose checksum fits is the record that
was encoded.

### `AuthorityBackedModel`

| Action | Code |
|---|---|
| `OtherCommit`, `CommitCall`, `RefuseCall`, `CloseAuthority` | the Authority: commit and notification are one turn; `apply()` answers at any later time, as `tests/unit/model-registry.test.ts` exercises |
| `Align`, `Construct` | registry creation: the head is read, the Model constructed and subscribed a turn later, and the first refresh enqueued |
| `ApplyTransaction`, `AcceptCommit`, `AnswerCall` | `applyTransaction()` in its three turns |
| `installCommitResult` | the install task of the chain |
| `ReadHead`, `InstallHead`, `GiveUpRefresh` | the refresh task in its two turns, and its early returns and errors |
| `Dispose`, `AwaitChain`, `FinishDispose` | `dispose()` in its three turns |

A refresh is assumed to fail only when the Authority has been disposed.
Validation of malformed Authority answers and the PositionMap probe are left
out: they are checks of data the Authority of this repository never produces.

### `ModelRegistry`

One URI; entries of different URIs do not interact. A Model is named after the
call that constructs it and is `none`, `live`, `draining` or `gone`. Whether the
document has an Authority is chosen in `Init`, so one run covers both modes.
`create()` and `#loadAndCreate()` are modelled turn by turn (check, align,
construct, synchronise, register or discard), `resolve()` with its join, and
`unload()` and a Model's own disposal at any time. `get` and `getAll` only read.
A `resolve()` can return a Model whose disposal has begun; the callers meet
`MODEL_DISPOSED` then, so this is taken as intended.

### `ReadService`

Every call of the read service is synchronous, so a call is one action; what
interleaves is everything between two calls of one reader.

| Action | Code |
|---|---|
| `Commit`, `Refresh`, `DisposeModel`, `UnregisterModel`, `Recover`, `RegisterModel` | the document, as far as reads can tell: the mainline, what the Authority retains, the Model's head and Snapshots |
| `Open`, `Revoke`, `DisposeStore` | the session store |
| `RefuseExpired`, `RefuseUnknown` | `resolve()` finds the session past its expiry and records that; or does not know it, or has no time |
| `Cancel`, `RefuseRequest`, `RefusePage` | the error answers of a paged request, in the order of the code |
| `Page` | a page: cursor decoded, result cut, trimmed to what fits, next cursor issued |
| `GetHead`, `GetSnapshot` | the requests answered as a whole |

- The clock promises nothing, so every reading (of the session store, of
  `decode` and of `issue`) is a choice of its own, and may fail.
- `cursor` is *any one* cursor that was issued. A cursor that was not issued
  does not decode (it is authenticated), which is the assumption made of the
  keyed hash; equal hashes of a query and of a binding mean equal queries and
  bindings.
- All six paged requests go through the same cursor, binding and `#pagedResult`.
  They differ in the scope they demand (`needsWholeDocument`), in whether they
  check a position against the result (all but those that collect from the cursor
  on, `isCollectedFromStart`), and in the Revision they are bound to
  (`cursorBinding`).
- What a query finds at a Revision is the constant `Findings`, and how many items
  of a page fit in a response any number. That a Revision always has the same
  findings is the immutability of Snapshots; of a diagnostics source it is
  assumed (the one of this repository is a function of the Snapshot).
- `read`, in a cursor and an answer, is history: what its holder has read so far.
- `reply` keeps the last answer and `told` the sessions of which somebody was
  told that they are over, so that the properties are about what callers see.

### `Editing` and the modules of the kernel

The kernel's modules are operators without state: each is a function of the
source, with its refusals in their order. `Editing` calls them from the actions
of one document's life.

| Action | Code |
|---|---|
| `Open` | the Authority's constructor: the Snapshot is validated and hashed, and throws if either fails |
| `Apply` | `apply()`: admission checks, `prepareKernelTransaction()`, the commit record, installation, activation of the staged entry |
| `Offer` | a client runs the kernel on the head itself, which stages an entry, and may never offer the result |
| `ApplyPrepared` | `applyPrepared()` with what the client prepared, or something altered: it is derived again and compared |
| `FinishDispose`, `OtherFinishDispose` | the end of `dispose()`, which retires every entry; the same by another Authority opened on the same Snapshot object |
| `replayTransactionCommit`, `replayed` | operators: replay of a record, and of the whole log, without any cache |

Abstractions, and why they are harmless:

- A text is a sequence of code units: `"H"` and `"L"` are the two halves of a
  surrogate pair, `"w"` a character of two bytes in UTF-8, others are single. This
  is what offsets in units, offsets in bytes and code point boundaries tell
  apart.
- A hash is the text that was hashed (collisions are left out). The canonical
  JSON of a document keeps what an Operation can change, and one opaque value:
  `cslJson`, which may hold any JSON. In `MCEditing` it looks exactly like a text
  node, the case in which a search for the old JSON would patch the wrong place.
- The identity of a JavaScript object is a `stamp`, since the code compares
  objects with `===` and keys its caches by them. Equality of documents is
  equality without stamps (`canonicalValue`).
- `Junk` stands for any value of the wrong shape, `Valid` for any of the right one
  that nothing else is asked of. A string of which only the length counts is that
  length.
- The resource limits of the decoder are kept: a request carries, beside its
  content, the walk over its JSON (bytes, depth, number of values). Sizes are small
  numbers compared with small bounds.
- Durability is `DocumentAuthority`'s: here a commit is over at once, so a
  request never meets a pending WAL write.
- `mapNodeId()` and the status `ambiguous` of maps are left out: no Operation that
  the kernel accepts moves a node.

### `Proposing`, `CometService`, `ProposalReview`, `UuidV7`

| Action | Code |
|---|---|
| `Handshake`, `OpenSession`, `ReadSnapshot`, `CreateProposal`, `StageSemanticEdits` | the five methods of the service, each one synchronous turn with its checks in order; an error takes an identifier too (its debug id) |
| `CloseModel`, `SetClock` | the environment: models close, the clock is set forward or back |
| `RequestStatus`, `AttachDiff`, `AttachValidation`, `ChooseGroups` | the holder of a drafted proposal: `transitionProposalStatus()`, the results of a diff and a validation begun earlier, `computeProposalGroupDependencyClosure()` |

- The service only ever stores drafts, and the functions of `proposal/` work on
  values their caller holds: the two share no state, so `Init` chooses which of them
  a behaviour is about.
- An identifier is its sixteen bytes. The clock and the entropy source may return
  anything in `Clocks` and `RandomFields`; seeds of a wrong shape included.
- A request and an edit are records of the fields the checks read; optional fields
  are sets of at most one member. Request records that a TypeScript caller cannot
  form are left out; unknown sessions, proposals and Revisions are not.
- `answered`, `request` and `draftedAt` are history: what was answered first, what a
  session asked for, and the revision at which a proposal last became a draft.
- A validation that its holder attaches is based on the revision the proposal has
  then; no validation is stale when it is attached. It may become so afterwards.
- `includeDependencies()` is a walk that takes the two sets of the source,
  `visiting` and `included`, and returns them: the walks of one selection, and those
  below one walk, hand them on in their order (`walkEach`), and an error ends all.
  The recursion is a function of the depth, which never exceeds the number of groups.

## 4. Runs

| Run | Instance | States | Shows |
|---|---|---|---|
| `Authority` | 2 commits, 2 callers, fairness | 121,935 | safety and liveness of an Authority, and that it implements `DurabilityPromise` |
| `StorageSafety` | 3 Authorities, 3 commits, Snapshots, torn frames; or a log of 3 frames of 2 sizes, torn anywhere, one cell damaged | 243,162 | acknowledged Revisions stay recoverable, no split brain, recovery neither loses nor rewrites; `decode()` invents nothing, takes no damage for a tear, and truncates every tear |
| `ModelView` | 2 calls, 3 commits, fairness | 65,276 | a Model follows its Authority and drains |
| `Registry` | 2 creators, 2 resolvers, fairness | 36,751 | one active Model, single flight, no orphan, no unanswered call |
| `Reading` | 2 sessions, 3 Revisions, 3 grants, 3 queries | 213,224 | pages make up a result, sessions and their cursors end for good |
| `Editing` | 1 sound and 11 faulty documents, 3 commits of 27 requests, 4 Snapshot objects | 3,570 | Revisions are sound and exact, the cache agrees with a computation from nothing, undo, positions and replay |
| `Proposing` | 2 sessions of 3 kinds, 7 batches, 2 clock readings; reviews of 4 diffs | 117,198 | retries, staging, grants, identifiers, review |
| `StaleCheckpointTask`, `SurvivingTail`, `ResolveConflict`, `LongTornFrame`, `StaleValidation` | small | — | the five disagreements of section 5 |

### Properties

*`Authority`*. `OneVolatileRevision`: at most one Revision is memory-only,
it is the head, and its WAL write is under way or has failed for good.
`WaiterHasWalWriter`: nobody waits for a Revision whose WAL write is over
without result. `FailureIsTerminal`: a failed Revision never becomes durable and
its Authority never writes again. `SnapshotFailureIsCurrent`: a Snapshot failure that
`whenDurable()` would answer with is that of a Revision still at `wal` of which no retry
is in flight. `ReleaseAfterWrites`: when the lease is released no write is in flight. `SnapshotWaiterIsScheduled`: a waiter for `snapshot` of a
Revision that is at `wal` has a Snapshot task at work. `ImplementsPromise`: the
refinement of `DurabilityPromise`. `EveryRequestSettles`, `DisposeCompletes`.

*`StorageSafety`*. `AckedIsRecoverable`: if everything
crashed now, recovery would succeed and contain every acknowledged Revision.
`NoSplitBrain`: no two different Revisions are ever acknowledged for one place on
the mainline. `ManifestIsBacked`: the manifest names a complete file of an
acknowledged Revision and is not behind any Revision acknowledged as `snapshot`.
`RestartPointAdvances`: the head that recovery would yield moves only to a child
of itself. For a log that `decode()` reads, `RecordsAreWritten`: what is decoded was written, at the same
place, in an intact frame. `DamageIsNotATornTail`: a verdict that lets recovery go
on costs at most the last complete frame, and that only when its own length was
damaged. `TornTailIsTruncated`: without damage, all complete frames are decoded and
a tear is reported as one; here with a budget larger than any frame.

*`ModelView`*, *`Registry`*: see the comments in the modules; in short, the head
is monotone and readable, own commits are visible, disposal freezes and drains,
the Model catches up; one active Model, single flight, no orphans, every call
answered.

*`Reading`*. `PagesMakeUpTheResult`: who follows the cursors has read a prefix of
the result at one Revision, and with the last page all of it.
`EndedSessionStaysEnded`: a session that a caller was told is over answers
nothing any more. `CursorsEndWithTheirSession`: nobody continues where such a
session has stopped.

*`Editing`*. `EveryRevisionIsSound`: every Revision is a manuscript of its own ID, by a
definition independent of the validator: IDs name one thing each, references lead
somewhere, texts are well-formed, claims are anchored at boundaries of texts.
`CommitsAreExact`: between two Revisions exactly the text the Operations name has
changed. `CacheIsExact`: every entry that may be trusted equals what indexing,
serialising and encoding its document again would give, byte ranges included, and
the retained code units are counted. `RetentionIsBounded`: the maps of the cache agree,
and it retains the head and at most one derivation, nothing of a disposed Authority. `UndoRestores`: the inverse of
the last commit restores every text, and is refused only for claims anchored in the
way. `PositionsFollowTheText`: from any Revision to the head, the composed maps keep a
position beside the unit it leans to and between the units it stood between, and the
claims are where the maps lead their anchors. `ReplayAgrees`: the log, replayed without
any cache, yields the head, and every Revision has the hash of its content.

*`Proposing`*. `RetriesAgree`: a repeated mutation is answered as it was the first
time, whatever happened since. `EditsAreAccountedFor`: a proposal is the recorded
batches, each once, each made on the revision before. `EditsStayInTheGrant`: an edit
names only nodes its session asked for, cites what it asked for, needs a capability it
asked for, and deletes or moves only what it was allowed to. `IdentifiersGrow`: every
identifier, debug ids included, is a UUIDv7 greater than all before.
`SelectionIsClosed`: chosen groups are completed to the least closed set, listed in the
diff's order, and refused exactly when that has an unknown or circular dependency.

### Bounds

- In `StorageSafety` two Authorities give every overlap of *one stale* and *one
  current* Authority; a third, a stale predecessor of a stale predecessor, and a
  third commit, for replay of several records and repeated truncation, are explored
  where no Snapshot was begun (`Explored`). Two records with two Snapshots let a later
  Snapshot overtake an earlier one and let a manifest lie before, at and after the end
  of the WAL.
- In `Authority` two commits are what one in flight and one already durable need;
  the next transaction is refused at `MaxSequence`. Two callers can wait for
  different levels of one Revision; the constraint `Explored` follows both up to the
  last commit and one of them through it, and takes transaction identities in
  order. It cuts off steps of callers only, of which no fairness speaks.
- For `decode()`, in `StorageSafety`, three frames let a damaged length swallow a frame that has a
  complete one behind it; the sizes 1 and 3 and damaged lengths from 0 to one more
  than the largest payload put the claimed end of a frame before, at, inside and
  behind every later one. `LongTornFrame` has a budget of two offsets and a payload
  of five cells, in place of 4096 and more.
- In `Reading` two sessions with equal grants let a cursor be presented in the
  wrong one. Three items and a page of two make a trimmed page, a full one and a
  short last one; two Revisions after the first with a page of one make a history
  of two pages that a commit, a recovery or a lost Revision cuts short. Times 0
  and 1 with expiry at 1 put each reading before or at an expiry; `MaxWalk` 2
  is the longest walk here; a longer one would only be one more refusal.
- Two calls and three Revisions let a result of an older commit arrive after
  that of a newer one and after a commit of somebody else.
- Two resolvers give a joiner and a late joiner; two creators give a competing
  `create()` in each of the three gaps of another.
- `FallbackLevel = "wal"` with Snapshots was checked once (4.1 million states)
  and found to add nothing; the committed run uses `snapshot`.
- In `Editing` three commits let an undo be undone and a position go through three
  maps; four Snapshot objects leave room for one that was prepared and abandoned, so
  its entry is replaced, adopted or retired. The requests replace, insert and delete
  in two text nodes, at the ends, inside a surrogate pair, out of range, twice in one
  Transaction (in one node and in two), and there are requests for the reasons to
  refuse. A tree depth of 4 and two replacement layers are reached and exceeded.
  `MaxUtf16Offset` is out of reach of these texts: an orphaned position needs a text
  of 2^53 units.
- In `Proposing` the clock reads 255 or 256, so a byte of the timestamp carries and
  goes back; the random field starts one step before a carry into the variant byte.
  `MaxLastByte` bounds how far identifiers are counted after it. Two sessions of
  different grants give a proposal in the wrong session; two stage keys and expected
  revisions up to 2 give a retry before, after and instead of another batch. One session
  may delete, one node at most, so a batch of one deletion passes and one of two is
  refused. The identifier allocator fails for a seed that is too short; its exhaustion is
  out of reach of the run and covered by `IdentifiersGrowAlways`. Eight changes of status
  let a proposal come to review, return to draft and come to review again. The four diffs
  are a chain, a cycle, an unknown dependency behind a sound one, and a group reached on
  two ways, which the shared sets must visit once and list in its place. `StaleValidation`
  has no session, and changes of status up to revision 8.

Symmetry is used in `Reading` only (sessions), which has no liveness property.
Deadlock checking is off where the system really may stop: a Model that is gone
(`ModelView`), a finished set of calls (`Registry`), a log that has been decoded
(`StorageSafety`), a disposed document (`Editing`). It is on in the other three.

### Fairness

Weak fairness is assumed of *continuations only*: the event loop runs every
queued turn and a port, a loader or an Authority answers, with success or
failure, after any delay. No caller is fair: nobody is obliged to call
anything, and no answer is assumed to be a good one. In `ModelRegistry` the
continuation of a Model's `dispose()` is fair because `PromisesSettle` of
`ModelView` shows that it completes.

`Authority` sets `CheckpointBeforeWal = FALSE`: callers checkpoint only
Revisions that have reached `wal`. Without this restriction
`SnapshotWaiterIsScheduled` fails (first disagreement below); the other theorems
of section 6 hold with and without it.

## 5. Disagreements between the code and its documents

Each has a run in which TLC finds the counterexample.

1. **A settled checkpoint task swallows the scheduling a waiter is owed**
   (`StaleCheckpointTask`; `single-document-authority.ts:397`). A caller waits for
   `snapshot` of a memory-only Revision, another calls `checkpoint()` on it and
   fails with `TEMPORARY_UNAVAILABLE`. The settled task stays in `#snapshotTasks`
   until its microtask; when fsync promotes the Revision in that window,
   `#scheduleSnapshotForWaiters` joins the settled task and starts no Snapshot.
   ADR-010 (`adr/010-single-document-authority.md:50-53`) demands that the waiter
   not depend on an unrelated caller.
2. **Frames of a previous Authority ride along with an fsync** (`SurvivingTail`;
   `storage/in-memory-durable-storage.ts:112`). When a document is reopened after
   a failed fsync without a crash of the storage, the abandoned frame is still in
   the volatile log. The successor appends a record with the same sequence, its
   fsync makes both durable and acknowledges `wal`, and the next recovery
   refuses the log as discontinuous. ADR-010 (lines 135-136) promises that a
   post-commit storage failure is recoverable and that fencing prevents a stale
   Authority from making a durable write.
3. **Concurrent resolves may disagree** (`ResolveConflict`;
   `workspace/in-memory-model-registry.ts:210`). A `create()` that registers its
   Model while a `resolve()` is loading makes that `resolve()` end in
   `MODEL_URI_ALREADY_EXISTS`, while a `resolve()` started meanwhile returns the
   Model. ADR-003 (`adr/003-single-active-model-per-workspace-uri.md:23`) demands
   that concurrent resolves return the same active instance.

4. **A long torn frame is reported as corruption** (`LongTornFrame`;
   `storage/wal-record-codec.ts:93`, budget at lines 18-19). When more than about
   4 KiB of an incomplete frame reached the log, the search behind it exceeds
   `MAX_RESYNC_CANDIDATE_OFFSETS`, every byte offset counting, and `decode()` ends in
   `corrupt`; recovery then demands intervention after an ordinary crash. ADR-010
   (line 91) demands that an incomplete trailing frame be truncated, and a
   property test (`tests/property/durability-wal.property.test.ts:46`) says so of
   *every* incomplete suffix, with frames too short to meet the budget.
5. **An old validation validates a new draft** (`StaleValidation`;
   `proposal/state-machine.ts:99`). `canEnterProposalStatus` asks whether the
   validation of a proposal is valid, and never what it was made of
   (`basedOnProposalRevision`). A proposal that was validated, went back to `draft` and
   is sent to `validating` again therefore becomes `validated` without another
   validation. ADR-008 (`adr/008-proposal-revision-state-machine.md:57`) says that
   `validated` must mean that the validation snapshot has landed on the current
   Proposal Revision, line 38 that the result must still be bound to the same content
   and base, and line 72 that a stale result must not produce `validated`;
   `docs/risks/gate-0-risk-register.md:44` lists the hazard as mitigated.
   `ValidatedIsCurrent` is the weakest reading: each change of status makes a new
   revision, so a validation of *any* revision since the last draft would do.

Observations without a run, because no document promises otherwise or because the
outcome is an error that reaches a caller and changes no state:

- The sequence comparison in `switchManifest` is redundant next to the comparison
  of generations (no run notices its removal); it is defence in depth.
- The position map of a Transaction of one ReplaceText is built before its range is
  checked (`model/transaction/transaction-kernel.ts:173-179`), and its constructor
  throws a `RangeError` when the start lies behind the end. `apply()` then rejects,
  where the same Operation beside another one gets `position-invalid`. The model
  keeps both outcomes.
- The inverse of a Transaction of several Operations may be refused with
  `claim-anchor-mapping-failed`, when a claim is anchored where the inverse has
  to replace. Where undo
  succeeds it restores the texts; claim anchors are mapped forward, not restored.
- `#activateCommittedSnapshotCache` falls back to verification only when another
  owner of the same Snapshot object has retired its entry. The model shows that
  the fallback is reached (`OtherFinishDispose`) and correct.
- The mock service counts the limits of a session per batch, not per proposal; an
  empty list of nodes allows every node when edits are staged but makes
  `readSnapshot` refuse; a clock that goes back revives an expired session;
  `maxNewReferences` and `maxChangedUtf16Units` are granted and not enforced; with
  an exhausted allocator an error answer throws instead.

## 6. Proofs

All theorems hold for every value of the constants that satisfies the named
`ASSUME`s of the module; TLC evaluates these assumptions on every run. Each
safety theorem is proved from one inductive invariant `IInv` (`Init => IInv`, one
lemma per action or group of like actions, `Invariance` by PTL). `IInv` was
checked by TLC before it was proved.

### `DocumentAuthorityProofs`

`TypeCorrect`, `AtMostOneVolatileRevision`, `WaitersHaveAWalWriter`,
`WalFailureIsTerminal`, `SnapshotFailuresAreCurrent`, `LeaseOutlivesWrites`
(invariants), `ReadOnlyForGood` (action property) and `KeepsItsPromise`, the
refinement of `DurabilityPromise`: initial states map to initial states and
every step maps to a step or a stutter. Assumed: sequences are naturals with
`FirstSequence =< MaxSequence`, `NoRevision` is not one of them, targets are
levels.

The properties alone are not inductive. `IInv` adds that the Revisions up to the
head are the ones that exist (`LineUpToHead`), that the pending WAL write is that
of a memory-only head (`PendingWalIsHead`), that a Snapshot commit runs only for a
Revision at `wal` (`TaskIsAtWal`), that a waiting caller does not have its level
yet (`WaiterIsUnsatisfied`), and what each phase of `dispose()` has waited for
(`DisposalPhases`). `OneVolatileRevision`, for example, needs `PendingWalIsHead`:
without it a commit could be accepted on top of a head whose write is under way.

`SnapshotWaitersAreScheduled` is conditional: `~CheckpointBeforeWal`, as in the run.
It adds to `IInv` that no Snapshot task is in the map before its Revision is at
`wal` (`NoTaskBeforeWal`, which is what a checkpoint of a memory-only Revision
breaks), and that a task that settled without a Snapshot leaves a reason to refuse
the next caller, a recorded failure or the read-only mode (`SettledTaskIsOver`), so
that nobody can start to wait behind it.

### `DurableDocumentProofs`

`TypeCorrect`, `AckedStaysInStorage`, `BrainIsNeverSplit`, `ManifestStaysBacked`
(invariants), `RestartPointOnlyAdvances` (action property), `AckedStaysRecoverable`
and `NoSurvivingTailIsEnough`, for any number of Authorities, any length of the
mainline, any interleaving of a fenced Authority's late port calls with its
successor's, and any crash. Assumed: the fallback is at `wal` or `snapshot`, and
neither the absence of a Revision nor a torn frame is a Revision.

The argument has two layers.

*Whatever is in the log.* The first five need no assumption on takeovers. The
Revisions acknowledged as `wal`, by whichever Authority, form one line: one for each
sequence, each but the first with its parent among them (`SettledIsALine`). A log is
not one line: behind the durable frames there may be frames of several dead
Authorities, and a later fsync makes them durable too. What can be kept of it is
that recovery from it *ends on* the line (`EndsOn`: its last record is settled, and
every settled Revision is covered by the base or is one of the records) and that
its settled records are in the order of the line (`SettledInOrder`), which is what a
compaction, cutting at the record of the manifest, relies on. A new Revision can
only be settled by an fsync of the last Authority that took the lease, since storage
compares fences with the latest epoch; `AtTheTail` says for each stage of that
Authority that the record it has under way continues the restart point and is the
last frame in the log. For an Authority that is still recovering it says that what
its recovery has read yields the restart point: between its reads nobody else can
move it, because nobody else passes the fence. `RecoveryReadsSettled` says less of
all other recoveries: however stale, they start from a settled Revision. Hence a
second Authority never settles another Revision for a place (`BrainIsNeverSplit`), and
the restart point moves only by such an fsync (`RestartPointOnlyAdvances`).

*Where takeovers are clean.* That recovery *accepts* the log needs more than that it
holds all that was acknowledged: the log must be a piece of the line without gaps
that starts no later than behind the base (`Fits`). This is inductive only together
with `NoForeignTail`: behind the durable log there is nothing but the leaseholder's
own frame. It holds under `CleanTakeovers`, a condition on behaviours: whoever
acquires the lease finds all frames durable. So `AckedStaysRecoverable` reads
`Spec /\ CleanTakeovers => []AckedIsRecoverable`, and `SurvivingTail` (section 5) is the
counterexample without the condition. Together they locate the defect: what the
surviving tail breaks is the acceptance of the log by recovery, never the presence
of the data in it, and never the uniqueness of what was acknowledged.

Most of the module is about logs as sequences, apart from any Authority: decoding
drops at most a torn last frame, appending a child extends what recovery reaches, a
later base reaches no less, a cut at the base's own record loses nothing.

*The codec* (`WalCodec`). `CodecTypeCorrect`, `RecordsAreAlwaysWritten`,
`DamageIsNeverATornTail` and `TornTailsAreTruncated`, for any number of frames of any sizes, any damaged cell with
any value, and any point of a crash.

The invariant, `CodecIInv`, describes the log rather than the decoder: frames follow each other
without a gap (`FramesFollow`); each is made of its own cells unless it is the damaged
one (`FramesAreIntact`), which has another length or a cell that no frame has
(`DamageShows`); behind them there is nothing, or a proper prefix of one frame
(`TailIsTorn`). Of the decoder it says that it stands where a frame starts and has
returned the frames before it (`DecodedSoFar`). What each branch meets then follows.
An intact frame ahead is complete and its checksum fits (`FrameAhead`); at a damaged
one it does not, since a changed length makes a range that is not as long as the
payload the checksum is of, and a changed cell is no cell of that payload. A range that
starts elsewhere in a torn frame holds no complete frame (`TornPartIsRead`), because a
payload cell read as a length is larger than any payload. And if a changed length
hides a frame that is not the last one, the search for a complete frame reaches the
frames behind it or runs out of its budget first, and both are taken as corruption: so
`DamageIsNeverATornTail` holds for every budget.

That every torn tail *is* truncated needs a condition, which is the hypothesis of
`TornTailsAreTruncated`: no payload is larger than the number of offsets the search
may try. The code's constants do not satisfy it, and `LongTornFrame` (section 5) is the
counterexample. The theorem says that the budget is the only reason.

### `EditingProofs`

`RetentionIsAlwaysBounded`, `CommitsAreAlwaysExact`, `PositionsAlwaysFollowTheText` and
`EveryRevisionIsAlwaysSound`, for any documents, Transactions, offers, altered offers and
records that do not fit, and any length of the history.
Assumed (`DocumentsAssumption`): a Snapshot that passes the validator is written down as
JSON is. Its objects are records, its tree is a finite sequence of nodes that each have
an ID, a type and an identity, a node comes before its children and hangs in one place,
the walk of the validator reaches every one of them, the arrays of its graph are
sequences, it has its metadata, and the CSL values of its references are JSON texts.
That IDs are distinct, that texts are strings and that the graph has its claims is not
assumed but concluded from the verdict "ok" (`CanonicalIsDocument`).

For the first theorem, the first part is about `SnapshotCache` alone. A cache is what the module's maps can
hold together (`IsCache`): each entry and its identity belong to one Snapshot, and the
maps agree (`Consistent`). Each operation is shown to keep that and to retire *exactly*
what goes with the Snapshot it is given: itself, as verified or staged, and what was
derived from it (`RetireVerified`). For activation this means that the source goes with
its whole following before the derived entry takes its place. `dispose()` retires the
Snapshots of the history one after another (`RetireAll`, by induction over the
history). The second part is what its callers do. The kernel touches the cache only
where it succeeds, and then only by staging an entry of the object it has just made for
the head (`KernelStages`): an error in a later check leaves nothing behind. So what is
held always *follows* the head (`Follows`: the verified entry, if there is one, is the
head's, and whatever is staged was derived from it), and since a source has one
derivation, there is at most one. A commit moves the head to the derived object, an
abandoned or refused one leaves it (`CommitFollows`, `RetiringFollows`), and another
Authority may retire any of it. What was committed is always a new object, which is
why nothing that is held can be mistaken for it (`HistoryIsMade`).

`CommitsAreAlwaysExact` is about the fast path. A commit of one Operation looks at no
more of the document than the path to one node, along an index that was derived from
the index of the Revision before, and so on back to the first. So it is first proved of
the index alone that it finds exactly the nodes of the tree (`IndexFits`), and that this
survives a layer of replacements and the folding of the layers into the base
(`WithNodeReplacements`), whichever `MAX_NODE_REPLACEMENT_LAYERS` is. Then one Operation
is followed through the kernel: the path that the index gives ends at the node it names,
`replaceTextNode()` gives new identities to the nodes of that path and a new value to
the last one, nothing else in the tree differs (`ReplacedNodes`), and the derived index
fits the new tree (`ApplyIsExact`). The Operations of a Transaction make a chain of
trees (`Chain`, by induction over their number); an accepted Transaction makes the head
with the last of them, other claims, another ID and another hash (`Derives`), and
whatever it stages fits it (`KernelIsExact`). The property tells where each code unit came
from, so the texts with their origins are followed along the chain beside the tree
(`EditFollowsTheTree`, `TextsFollowTheChain`).

`EInv` joins this to the life of the document: every Revision is derived from the one
before it, the entry that the cache would trust for the head fits the head's tree, and
nothing is staged for an object that was not made yet (`CacheFits`). The last part is
needed because the next commit is that object: an older entry under its name would be
activated in its place. `installExpected` enters only through the commit it derives
itself; an altered offer is either equal to it or leaves the history alone.

`PositionsAlwaysFollowTheText` has a hypothesis, `TextsHaveOffsets`: no text is longer
than `MaxUtf16Offset`, the largest safe integer, before, during or after a Transaction.
JavaScript allows no string that long, and without it a position map may not have the
offsets of the text. The proof first follows one step and one place (`StepLeads`,
`PlaceStays`): a place before, in or behind what is replaced is led where the units
beside it went. Then the units are followed through one Transaction by induction over its
Operations, with a notion of where a position *stands* among what is left of an old text
(`TransactionStands`). Of the document's life it is needed that each Revision has the map
of its own Operations and the claims of the one before, rebased along that map
(`FollowsFrom`, in `HistoryIsMapped`), and that composition lines up the steps of one
Transaction after the other (`MapOfSteps`), by induction over the history. That maps can
always be composed, being from each Revision ID to the next, is part of what is proved.

`EveryRevisionIsAlwaysSound` is about the Transactions that are not validated as a whole:
one Operation leaves the kernel without the validator having seen the result. A boundary
of a text is a place that no surrogate pair straddles (`IsCut`). An Operation that the
kernel accepts replaces from one boundary to another by a well-formed text, so that the
new text is well-formed and a boundary that stays is led to a boundary by the very step
that the claims are rebased along (`SpliceKeepsCuts`, `StepKeepsCut`). All other parts of
a node are carried along the chain of trees (`TreeIsCarried`), and so are the IDs of all
entities. So a Revision is sound if the one before it is (`NextIsSound`). The first one
is by the checks of the validator, which is where its code is read in the proof
(`CheckedIsSound`): what each refusal excludes has to add up to the independent
definition.

### `SnapshotCacheProofs`

`CacheIsAlwaysExact` and `HashesAreRecomputed`, under the assumptions of `EditingProofs`,
for any documents, Transactions, offers, altered offers and any length of the history.
They are about the kernel's trusted path: a commit of one Operation serialises one Text
Node and the claims it moved, patches them into the payload of the Revision before and
into its bytes, moves every UTF-8 range that was promised, and hashes the result. What
has to be shown is that this is the payload of the new document, down to the last range.

The payload of a document is *laid out* for an edit: the claims and the text that is
replaced are *pieces*, what lies between, before and behind them are gaps
(`DocumentIsLaidOut`). The claims come before the tree in the payload; the place of a text
follows from the way from the root to its node, because a node's JSON contains that of
its children in order and of nothing else that changes (`IsContext`). Two documents of
which one is made of the other by one Operation have the same gaps and other pieces. From
here on only texts matter. Each replacement is found where its piece lies, by the search
for its JSON or by the range that an earlier patch promised; the sorted replacements are
the pieces in order; replacing them one after the other, from the front, puts the new
pieces between the same gaps, in code units and in bytes (`PatchIsExact`); and the ranges
kept for the next patch are those of the new pieces, each moved by the lengths of the
pieces before it (`NextPromises`). Both are inductions over the pieces. Two things are
needed that are easy to miss. A replaced object has one identity, so that a promised range
cannot be taken for that of another object with the same JSON: a Text Node is a new
object after each edit, and so is a moved claim (`TextIdentityIs`). And a piece must not
be empty unless it is the last, or the sort by start would not say which of two comes
first; a piece of JSON never is.

`CInv` joins this to the life of the document. It says of *every* entry that may be
trusted, and of a provisional one that a client may offer back much later, that it is exact
(`IsExactEntry`: payload, bytes, index and ranges are those of its document); that each
Revision is written down as `IsWrittenDown` assumes it of the first one, with the hash of
its content; and that the retained code units count what is retained (`CountsOnly`).
Together with `EInv` it is inductive: what the kernel stages is exact if the entry it
starts from is (`KernelIsWritten`), on the trusted path by the above, on all others
because it is calculated from nothing; staging, activation, retirement and disposal keep
entries as they are and count them once (`StagedWrites`, `EntryTakesOver`,
`RetiringCounts`). The index is exact because a derived index that fits the tree, and
whose links lead to each node from its one parent, answers as a new one
(`SameLinks`). `CacheIsExact` then is a reading of `IsExactEntry` (`ExactEntrySays`).

### `AuthorityBackedModelProofs`

`TypeCorrect`, `ShowsMainline`, `ReadsItsCommits`, `DrainsBeforeDisposal`
(invariants), `HeadOnlyAdvances`, `StaysFrozen` (action properties), for any
number of calls and any length of the mainline.

The argument for `ReadsItsCommits` is the part of the design that no single
function shows. The Authority notifies in the turn of the commit, so a refresh
is on the chain before the result of the call can be; hence in `IInv`
(`NotificationIsAhead`) every committed call is *covered* by a refresh that runs
before its own install task, or by a head that has already reached it. When the
install task runs, all tasks ahead of it are done, so the head is at or past
the Revision, and installing the result can only confirm it. A refresh that gives
up does not break this: it happens only when the Model is disposed or the
Authority gone. `InstallsAreUnique` (one install task per call) and
`HeadReadIsNewer` (what a refresh has read is no older than the head, because
only the running task moves the head) carry the rest; `DisposalShape` says what
`dispose()` still awaits at each stage.

### `ModelRegistryProofs`

`TypeCorrect`, `KeepsOneActiveModel`, `ResolvesAreSingleFlight`, for any number of
calls. `IInv` adds `CallShape` (which Model and which outcome a call can have at
each of its stages; a Model a call ends with is one that its constructing call
ended with) and `RegisteredIsAnswered` (the registered Model is live or draining,
and its call has ended with it). The assumption on `Nothing` is the one the proof
needed: it is neither a call nor an error outcome.

### `ReadServiceProofs`

`TypeCorrect`, `ReadsAreExact`, `SessionsEndForGood`, `CursorsEndForGood`, for any
number of sessions, Revisions, queries and grants, any page size and any findings.
`IInv` adds that a cursor's holder has read exactly the items before its position
(`CursorIsAhead`) and that a session that somebody was told of is known and not
in force (`ToldAreOver`). Two facts carry `ReadsAreExact`: the result at a Revision
never changes (the line up to a Revision is set once, and a recovery forgets
which Revisions are retained, not what they were), and a cursor decodes only for
the binding it was issued with, so both pages are cut from the same result.
`CursorsEndForGood` then follows from `SessionsEndForGood`: equal bindings name
equal sessions.

### `ProposingProofs`

`IdentifiersGrowAlways` (action property), `RetriesAlwaysAgree`,
`EditsAlwaysStayInTheGrant`, `EditsAreAlwaysAccountedFor`,
`SelectionIsAlwaysClosed`, for any documents, requests, batches, limits, diffs, clock readings and entropy. Assumed: an entropy
source returns bytes (`RandomFieldsAssumption`); a diff is not the absence of one,
and its groups have distinct identifiers, as the duplicate check of
`change-group-identity.ts` makes sure (`DiffGroupsAssumption`); an edit has only the
fields that the types of `proposal/semantic-edit.ts` give its kind
(`BatchesAssumption`).

First come lemmas about `UuidV7` alone: what `createUuidV7Bytes` builds is a
UUIDv7 (`CreatedIsUuidV7`); a carry raises one byte within its fixed bits and
leaves those before it (`IncrementGrows`); `Precedes` is a strict order; hence
`AllocateGrows`. `StepEffects` then reduces every step to one of four effects: none
but an identifier for an error, a session opened, a proposal created, a proposal
advanced. `IInv` has six parts. `IssuedInOrder`: the identifiers of sessions and
proposals are UUIDv7s up to the last one taken. So an identifier never repeats
(`NextIdentifierIsNew`), and opening a session cannot replace one: the parts
`AnswersOnRecord` (each answered mutation still passes the checks that come before
the replay, and its record holds its answer) and `ProposalsAreHeld` (each edit of a
proposal passed the checks under the grant of its session) both rest on that.
`ReviewIsPrepared` keeps the proposal under review a proposal with a diff wherever its
status needs one, as `ChoiceIsComputed` has to know.

`EditsAreRecorded` is what makes `EditsAreAccountedFor` inductive: the staging record
of a revision is the only one for it and holds a sequence of edits, and no record
names a proposal that is not there. The first keeps the `CHOOSE` of a batch the same
when a record is added (`BatchIsOnRecord`, `BatchStays`); the last makes a new proposal
start without records. That appending a batch appends it to the flattened sequence
(`FlattenAppend`) is an induction over the number of batches.

`ChoiceIsComputed` says that a choice is the answer for what was asked of this
proposal's diff; all else about `SelectionIsClosed` is a lemma on the walk alone
(`ClosureIsLeast`), for any diff and any request. Every walk works on the sets that the
walks before it left behind, so the lemma is about those sets as they pass through.
Between two walks they are in order (`InOrder`): what is included is closed and sound,
and nothing included is still being visited. `Adds` says what a walk does to such sets: it
leaves `visiting` as it was, keeps and extends `included` by the ids it was sent to, keeps the
sets in order, and includes nothing that a closed set with these ids and what was
included before would not have. A walk does not fail where a closed and sound set has its
id and all that is being visited, each of which depends on one of these (`LeadsTo`): in
such a set no walk meets an unknown id or a cycle. Together this is `Walked`; `WalkEachAdds` carries it over a list of ids, and `LevelWalks`
from one depth of the recursion to the next. `LevelWalks` has to count: a walk goes on at
most as many levels as there are groups not being visited, and the recursion has one for
each group, so that at the last level, where all are being visited, every walk ends at once
(`IncludeDependenciesWalks`). That
the definitions mean what they say at all, a recursive function per list and one per
depth, is `RecursionExists`, once for both. `IncludedIsListed` then says that the list is
in the diff's order and complete.

### Only model-checked

- All liveness properties (`EveryRequestSettles`, `DisposeCompletes`, `CatchesUp`,
  `PromisesSettle`, `NoOrphans`, `EveryCallSettles`): liveness under fairness and
  `ENABLED` are beyond the prover.
- `UndoRestores` and the first half of `ReplayAgrees` of `Editing` (the second half, that
  every Revision has the hash of its content, is `HashesAreRecomputed`). Both are about a
  *second* run of the kernel and say that it succeeds. For the replay this needs the whole
  kernel to be independent of the cache and of object identities, and the converse of what
  is proved about the validator: that it accepts whatever one Operation makes of a document
  it has accepted. For the undo it needs in addition which claims an inverse can meet.

The type invariants of the first four proved modules, `ReadOnlyIsFinal`, `DisposeDrains` and `DisposedIsFrozen` are theorems, and
therefore in no run.

## 7. What is not modelled

Section 2 lists the components without a module. Within the modelled ones:
where the kernel is not concerned, the contents of Snapshots and operations (a
Revision is its identity); the canonical JSON and UTF-8 of WAL payloads; content
digests and schema validation of Snapshot files; what the derivations of a read
find and how many bytes an answer has; URI normalisation, error texts, listeners
that only observe, property descriptors and prototypes of untrusted objects, and
the shape checks of requests and answers other than Transactions.

- The preview2 wire adapter and request decoder of `integration/comet/` translate
  shapes one to one, without state; a model of them would be a copy.
- Derived UUIDv8 identifiers and `read-query-hash.ts` are hashes of canonical JSON;
  their only property is that of the hash.
- `change-group-identity.ts` names a change group by such a hash, brings the groups of a
  diff into a topological order with detection of cycles
  (`canonicalizeProposalChangeGroupOrder`), and maps the groups of a diff to those they
  supersede (`deriveSupersedesMappings`). These are pure functions of a diff, made before it
  is attached; none of the modelled operations calls them.
- `base/uri/resource-uri.ts` is parsing of single strings, which a unit test covers
  as well as a model would.
- The resolve-model service (`services/workspace-service/`) reads one registry entry.
- `platform/`, benchmarks, scripts and entry points have no state of the editor's.

Hazards that no property covers yet are listed in `PROJECT.json` with empty
`properties` and a note: the reuse of a transaction identity across a restart,
which needs the identities of `Editing` together with the restarts of
`DurableDocument`; a reader of `getChangesSince()` that starves under steady
commits; and the `RangeError` of section 5.

## 8. Plan

Done: the modules of section 3, the runs of section 4 and the proofs of section 6.

Next, most important first:

1. Theorems about a second run of the kernel: that the log alone leads to the head
   (`ReplayAgrees`) and that an inverse is accepted and restores the texts (`UndoRestores`).
2. `DurableDocument` with transaction identities that clients choose, and may use
   again after a restart.
