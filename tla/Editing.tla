-------------------------------- MODULE Editing --------------------------------
(***************************************************************************)
(* Editing one document: the Document Authority with the real kernel, the  *)
(* process-wide Snapshot cache and the log it writes, from the Snapshot it *)
(* is opened on to its disposal.  DocumentAuthority has what this module   *)
(* leaves out: durability, leases, and the Transaction that has to wait    *)
(* for the one before it to reach the log.                                 *)
(*                                                                         *)
(* Other code of the process shares the Snapshot objects: a client may run *)
(* the kernel on the head and offer the result to applyPrepared(), and a   *)
(* second Authority opened on the same Snapshot object retires the cache   *)
(* entry of that object when it is disposed.                               *)
(***************************************************************************)
EXTENDS TransactionKernel

CONSTANTS
    Documents,       \* the Snapshots an Authority may be opened on, sound or not
    Uri,
    RevisionIds,     \* the Revision IDs the allocator hands out, in order
    TransactionIds,  \* the Transaction IDs clients use, in order
    Requests(_, _),  \* what clients send, given the base Revision and a Transaction ID
    Alterations(_),  \* what may be offered, given what the kernel prepared
    MaxRecordUnits,  \* the longest log record, in inserted code units
    MaxCommits,      \* bound: the Revisions committed after the first one
    MaxObjects,      \* bound: the Snapshot objects ever made
    MaxOffers,       \* bound: what clients prepare is offered before so many commits
    NothingOffered

VARIABLES
    phase,     \* "closed", "open" or "disposed"
    history,   \* the committed Revisions, the initial one first
    cache,     \* the process-wide Snapshot cache
    offered,   \* what a client prepared by running the kernel itself
    objects    \* the number of Snapshot objects made so far

vars == <<phase, history, cache, offered, objects>>

head == Last(history)
headRevision == head.revision
headSnapshot == head.snapshot

Init ==
    /\ phase = "closed"
    /\ history = <<>>
    /\ cache = EmptyCache
    /\ offered = NothingOffered
    /\ objects = 0

-----------------------------------------------------------------------------
(* Opening.                                                                *)

isCanonicalSnapshot(document) ==
    /\ validateDocumentSnapshot(document) = "ok"
    /\ computeDocumentHash(document) = document.documentHash

IsRecord(object) == object = [key \in DOMAIN object |-> object[key]]

\* A node is written down before those under it, and each but the root hangs in one place.
IsWrittenInOrder(tree) ==
    /\ \A p \in DOMAIN tree : childrenOf(tree[p]) \in Seq(p + 1 .. Len(tree))
    /\ \A c \in 2 .. Len(tree) : \E p \in DOMAIN tree : c \in Range(childrenOf(tree[p]))
    /\ \A p, q \in DOMAIN tree :
            \A i \in DOMAIN childrenOf(tree[p]), j \in DOMAIN childrenOf(tree[q]) :
                childrenOf(tree[p])[i] = childrenOf(tree[q])[j] => p = q /\ i = j

\* How a document is written down: its objects are records, its arrays sequences, its JSON
\* values are texts, and every node of its tree is reached from the root.

IsWrittenDown(document) ==
    /\ IsRecord(document) /\ IsRecord(document.academicGraph)
    /\ {"metadata", "root", "academicGraph"} \subseteq DOMAIN document
    /\ \A key \in {"referenceSnapshots", "evidenceLinks", "claims"} :
            document.academicGraph[key] \in Seq(Range(document.academicGraph[key]))
    /\ \A reference \in Range(document.academicGraph.referenceSnapshots) :
            isString(reference.cslJson)
    /\ document.root \in Seq(Range(document.root)) \ {<<>>}
    /\ IsWrittenInOrder(document.root)
    /\ \A p \in DOMAIN document.root :
            /\ IsRecord(document.root[p])
            /\ {"id", "type", "stamp"} \subseteq DOMAIN document.root[p]
    /\ Visits(document.root) \in Seq(DOMAIN document.root)
    /\ Range(Visits(document.root)) = DOMAIN document.root

ASSUME DocumentsAssumption ==
    \A document \in Documents : isCanonicalSnapshot(document) => IsWrittenDown(document)

\* The entry of a Snapshot that was validated and hashed from nothing.
checkedEntry(snapshot) ==
    LET payload == createDocumentHashPayload(snapshot.document)
    IN  [snapshot |-> snapshot.object, identity |-> <<snapshot.object, "checked">>,
         length |-> Len(payload), document |-> snapshot.document,
         index |-> createDocumentIndexFromValidatedSnapshot(snapshot.document),
         payload |-> payload, utf8 |-> createTrustedCanonicalUtf8Text(payload)]

\* The constructor throws unless the Snapshot is canonical and has its declared hash.
Open(document) ==
    LET snapshot == [object |-> 1, document |-> document]
    IN  /\ phase = "closed"
        /\ isCanonicalSnapshot(document)
        /\ phase' = "open"
        /\ objects' = 1
        /\ cache' = cacheVerifiedFrozen(cache, checkedEntry(snapshot))
        /\ history' = <<[revision |-> [id |-> document.revisionId, uri |-> Uri, sequence |-> 0,
                                       transactionId |-> "initial",
                                       documentHash |-> document.documentHash],
                         snapshot |-> snapshot]>>
        /\ UNCHANGED offered

-----------------------------------------------------------------------------
(* Committing.                                                             *)

kernelOptions(request, nextRevisionId) ==
    [request |-> request, headRevision |-> headRevision, headSnapshot |-> headSnapshot,
     nextRevisionId |-> nextRevisionId, object |-> objects + 1]

transactionIds == {history[i].revision.transactionId : i \in DOMAIN history}
revisionIds == {history[i].revision.id : i \in DOMAIN history}

\* Decoded, for this document and this head, and with a new identity.
isAdmissible(request) ==
    /\ decodeStrictTransactionV1(request) = "ok"
    /\ request.json.target.uri = Uri
    /\ request.json.target.baseRevisionId = headRevision.id
    /\ request.json.id \notin transactionIds

createKernelCommitPreparer(request, nextRevisionId, prepared) ==
    [revision |-> [id |-> nextRevisionId, uri |-> request.json.target.uri,
                   sequence |-> headRevision.sequence + 1, transactionId |-> request.json.id,
                   documentHash |-> prepared.snapshot.document.documentHash],
     snapshot |-> prepared.snapshot,
     transactionHash |-> prepared.transactionHash,
     positionMap |-> prepared.positionMap,
     inverse |-> prepared.inverse,
     replayInput |-> prepared.replayInput]

\* A record is as long as what its Transaction inserts, beside what every record has.
encodes(commit) ==
    LET operations == commit.replayInput.json.operations
    IN  FoldLeft(LAMBDA sum, operation : sum + Len(operation.replacement), 0, operations)
            <= MaxRecordUnits

\* Nothing staged: the Snapshot is verified again, and without an entry if that fails.
verifyCommittedSnapshot(staged, previous, snapshot) ==
    IF isCanonicalSnapshot(snapshot.document)
    THEN retireVerified(cacheVerifiedFrozen(staged, checkedEntry(snapshot)), previous.object)
    ELSE retireVerified(retireVerified(staged, previous.object), snapshot.object)

activateCommittedSnapshotCache(staged, previous, snapshot) ==
    IF CanActivate(staged, previous.object, snapshot.object)
    THEN activateKernelDerived(staged, previous.object, snapshot.object)
    ELSE verifyCommittedSnapshot(staged, previous, snapshot)

\* A commit that does not fit in a record leaves nothing but its cache to retire.
installPreparedCommit(commit, staged) ==
    /\ objects' = objects + 1
    /\ IF encodes(commit)
       THEN /\ history' = Append(history, commit)
            /\ cache' = activateCommittedSnapshotCache(staged, headSnapshot, commit.snapshot)
       ELSE /\ cache' = retireVerified(staged, commit.snapshot.object)
            /\ UNCHANGED history

installDerived(request, nextRevisionId, prepared) ==
    /\ prepared.type = "ok"
    /\ installPreparedCommit(createKernelCommitPreparer(request, nextRevisionId, prepared.value),
                             prepared.value.cache)

\* A refused Transaction changes nothing, and neither does one that throws.
Apply(request) ==
    /\ phase = "open"
    /\ isAdmissible(request)
    /\ installDerived(request, RevisionIds[objects],
                      prepareKernelTransaction(kernelOptions(request, RevisionIds[objects]), cache))
    /\ UNCHANGED <<phase, offered>>

keepPrepared(request, nextRevisionId, prepared) ==
    /\ prepared.type = "ok"
    /\ offered' = [request |-> request,
                   commit |-> createKernelCommitPreparer(request, nextRevisionId, prepared.value)]
    /\ cache' = prepared.value.cache

\* A client runs the kernel on the head.
Offer(request) ==
    /\ phase = "open"
    /\ offered = NothingOffered
    /\ Len(history) <= MaxOffers
    /\ keepPrepared(request, RevisionIds[objects],
                    prepareKernelTransaction(kernelOptions(request, RevisionIds[objects]), cache))
    /\ objects' = objects + 1
    /\ UNCHANGED <<phase, history>>

WithoutStamps(things) ==
    [i \in DOMAIN things |->
        [key \in DOMAIN things[i] \ {"stamp"} |-> things[i][key]]]

\* A document as canonical JSON: the identities of its objects do not show.
canonicalValue(document) ==
    [document EXCEPT !.root = WithoutStamps(@), !.academicGraph.claims = WithoutStamps(@)]

canonicalValuesEqual(commit, expected) ==
    /\ commit.revision = expected.revision
    /\ canonicalValue(commit.snapshot.document) = canonicalValue(expected.snapshot.document)
    /\ commit.transactionHash = expected.transactionHash
    /\ commit.positionMap.from = expected.positionMap.from
    /\ commit.positionMap.to = expected.positionMap.to
    /\ commit.inverse = expected.inverse
    /\ commit.replayInput.json = expected.replayInput.json

validatePreparedCommit(commit, expected) ==
    /\ isCanonicalSnapshot(commit.snapshot.document)
    /\ commit.revision.id \notin revisionIds
    /\ canonicalValuesEqual(commit, expected)

\* Broken variant: an offered commit is installed without being derived again.
installExpected_TrustsTheOffer(commit, expected, staged) ==
    IF commit.revision.id \notin revisionIds
    THEN installPreparedCommit(commit, staged)
    ELSE /\ cache' = retireVerified(staged, expected.snapshot.object)
         /\ objects' = objects + 1
         /\ UNCHANGED history

installExpected(commit, expected, staged) ==
    IF validatePreparedCommit(commit, expected)
    THEN installPreparedCommit(expected, staged)
    ELSE /\ cache' = retireVerified(staged, expected.snapshot.object)
         /\ objects' = objects + 1
         /\ UNCHANGED history

installRederived(request, commit, prepared) ==
    /\ prepared.type = "ok"
    /\ installExpected(commit,
                       createKernelCommitPreparer(request, commit.revision.id, prepared.value),
                       prepared.value.cache)

\* What is offered is derived again, and the derivation is what is installed.
ApplyPrepared(request, commit) ==
    /\ phase = "open"
    /\ isAdmissible(request)
    /\ installRederived(request, commit,
                        prepareKernelTransaction(kernelOptions(request, commit.revision.id),
                                                 cache))
    /\ offered' = NothingOffered
    /\ UNCHANGED phase

-----------------------------------------------------------------------------
(* Retiring.                                                               *)

\* One object after the other.
retireAll(snapshots, objectsOf) ==
    LET retired[i \in 0 .. Len(objectsOf)] ==
            IF i = 0 THEN snapshots ELSE retireVerified(retired[i - 1], objectsOf[i])
    IN  retired[Len(objectsOf)]

\* The end of dispose(), when every write has settled.
FinishDispose ==
    /\ phase = "open"
    /\ phase' = "disposed"
    /\ cache' = retireAll(cache, [i \in DOMAIN history |-> history[i].snapshot.object])
    /\ offered' = NothingOffered
    /\ UNCHANGED <<history, objects>>

\* An Authority opened on the same Snapshot object, which wrote nothing, is disposed.
OtherFinishDispose ==
    /\ phase = "open"
    /\ cache' = retireAll(cache, <<history[1].snapshot.object>>)
    /\ UNCHANGED <<phase, history, offered, objects>>

-----------------------------------------------------------------------------
(* Undo: the client sends the inverse of the last commit.                  *)

undoOperations(inverse) ==
    [i \in DOMAIN inverse.operations |->
        inverse.operations[i] @@ [id |-> ToString(i)]]

undoRequest(request, inverse) ==
    [request EXCEPT !.json.operations = undoOperations(inverse),
                    !.json.preconditions = inverse.preconditions]

\* What clients send on this head: Transactions of their own, and inverses.
undoOfHead(id) ==
    undoRequest([head.replayInput EXCEPT !.json.id = id,
                                         !.json.target.baseRevisionId = headRevision.id],
                head.inverse)

Sent(id) ==
    Requests(headRevision.id, id) \cup IF Len(history) = 1 THEN {} ELSE {undoOfHead(id)}

\* Bounds, and a Transaction ID that is new or was used before.
MayDerive == phase = "open" /\ objects < MaxObjects
MayCommit == MayDerive /\ Len(history) <= MaxCommits
UsedOrNextIds == {TransactionIds[i] : i \in 1 .. Len(history)}

Next ==
    \/ \E document \in Documents : Open(document)
    \/ /\ MayCommit
       /\ \E id \in UsedOrNextIds : \E request \in Sent(id) : Apply(request)
    \/ /\ MayDerive
       /\ \E request \in Requests(headRevision.id, TransactionIds[1]) : Offer(request)
    \/ /\ MayCommit /\ offered # NothingOffered
       /\ \E commit \in Alterations(offered.commit) : ApplyPrepared(offered.request, commit)
    \/ FinishDispose
    \/ OtherFinishDispose

Spec == Init /\ [][Next]_vars

-----------------------------------------------------------------------------
(* Replaying the log (storage/transaction-replay.ts).                      *)

logRecord(commit) ==
    [revision |-> [key \in {"id", "uri", "sequence", "transactionId"} |-> commit.revision[key]],
     parentRevisionId |-> commit.positionMap.from,
     transactionHash |-> commit.transactionHash,
     documentHash |-> commit.revision.documentHash,
     replayInput |-> commit.replayInput]

matchesReplayHistory(document, revision, record) ==
    LET json == record.replayInput.json
    IN  /\ record.revision.id # record.parentRevisionId
        /\ document.revisionId = record.parentRevisionId
        /\ document.revisionId = revision.id
        /\ document.documentHash = revision.documentHash
        /\ revision.uri = record.revision.uri
        /\ revision.sequence + 1 = record.revision.sequence
        /\ json.id = record.revision.transactionId
        /\ json.target.baseRevisionId = record.parentRevisionId
        /\ json.target.uri = record.revision.uri

agreesWithRecord(record, prepared) ==
    IF \/ prepared.transactionHash # record.transactionHash
       \/ prepared.snapshot.document.documentHash # record.documentHash
    THEN errorResult("replay-hash-mismatch")
    ELSE Ok([document |-> prepared.snapshot.document,
             revision |-> record.revision @@ [documentHash |-> record.documentHash]])

\* No cache: a recovered Snapshot is not frozen, so every step takes the slow path.
replayTransactionCommit(document, revision, record) ==
    IF decodeStrictTransactionV1(record.replayInput) # "ok"
    THEN errorResult("invalid-replay-input")
    ELSE IF ~ matchesReplayHistory(document, revision, record)
    THEN errorResult("history-mismatch")
    ELSE onOk(prepareKernelTransaction(
                [request |-> record.replayInput, headRevision |-> revision,
                 headSnapshot |-> [object |-> 0, document |-> document],
                 nextRevisionId |-> record.revision.id, object |-> 0],
                EmptyCache),
              LAMBDA prepared : agreesWithRecord(record, prepared))

\* The whole log, from the initial Snapshot.
replayed ==
    FoldLeft(LAMBDA result, commit :
                onOk(result, LAMBDA reached :
                        replayTransactionCommit(reached.document, reached.revision,
                                                logRecord(commit))),
             Ok([document |-> history[1].snapshot.document, revision |-> history[1].revision]),
             Tail(history))

-----------------------------------------------------------------------------
(* Properties.                                                             *)

\* Where the code units of a text came from: [node, by, i] is the i-th unit of the original
\* text, or the i-th one that Operation by inserted.
Original(document) ==
    [id \in {document.root[p].id : p \in {q \in DOMAIN document.root :
                                            document.root[q].type = "text"}} |->
        LET value == document.root[placeOf(document.root, id)].value
        IN  [i \in DOMAIN value |-> [unit |-> value[i], by |-> <<id, 0, 0>>, i |-> i]]]

\* The texts after the Operations of history[c].
Edited(texts, c, operations) ==
    LET Inserted(operation, k) ==
            [i \in DOMAIN operation.replacement |->
                [unit |-> operation.replacement[i], by |-> <<operation.textNodeId, c, k>>, i |-> i]]
        text[k \in 0 .. Len(operations)] ==
            IF k = 0
            THEN texts
            ELSE [text[k - 1] EXCEPT ![operations[k].textNodeId] =
                    Splice(@, operations[k].startUtf16Offset, operations[k].endUtf16Offset,
                           Inserted(operations[k], k))]
    IN  text[Len(operations)]

\* The texts of history[to], each unit with where it came from, seen from history[from].
Texts(from, to) ==
    LET text[c \in from .. to] ==
            IF c = from
            THEN Original(history[from].snapshot.document)
            ELSE Edited(text[c - 1], c, history[c].replayInput.json.operations)
    IN  text[to]

\* The map of positions from history[from] to history[to].
Composed(from, to) ==
    LET composed[c \in from + 1 .. to] ==
            IF c = from + 1
            THEN history[c].positionMap
            ELSE compose(composed[c - 1], history[c].positionMap)
    IN  composed[to]

Units(text) == [i \in DOMAIN text |-> text[i].unit]

\* What a manuscript has to be, whatever checks it: one root, Node and Entity IDs that name one
\* thing each, references that lead somewhere, texts and anchors that are well-formed Unicode.
IsManuscript(document) ==
    LET tree == document.root
        graph == document.academicGraph
        entities == graph.referenceSnapshots \o graph.evidenceLinks \o graph.claims
        declaring == {p \in DOMAIN tree : declaredEntityIds(tree[p]) # {}}
    IN  /\ IsInjective([p \in DOMAIN tree |-> tree[p].id])
        /\ IsInjective([i \in DOMAIN entities |-> entities[i].id])
        /\ \A p, q \in declaring :
                p # q => declaredEntityIds(tree[p]) \cap declaredEntityIds(tree[q]) = {}
        /\ treeEntityIds(tree) \cap idsOf(entities) = {}
        /\ \A p \in DOMAIN tree :
                CASE tree[p].type = "text" -> hasWellFormedUtf16(tree[p].value)
                  [] tree[p].type = "citation" ->
                        tree[p].attrs.referenceId \in idsOf(graph.referenceSnapshots)
                  [] tree[p].type = "footnoteReference" ->
                        \E note \in nodesWithId(tree, tree[p].attrs.footnoteNodeId) :
                            note.type = "footnote"
                  [] OTHER -> TRUE
        /\ \A i \in DOMAIN graph.claims :
                LET anchor == graph.claims[i].anchor
                IN  /\ anchor.document.revisionId = document.revisionId
                    /\ IF anchor.primary.kind = "text"
                       THEN \E node \in nodesWithId(tree, anchor.primary.node) :
                                /\ node.type = "text"
                                /\ validateUtf16Boundary(node.value, anchor.primary.offset)
                       ELSE nodesWithId(tree, anchor.primary.parent) # {}

\* Every committed Revision is a manuscript of its own ID, though a Transaction of one Operation
\* is not validated as a whole.
EveryRevisionIsSound ==
    \A i \in DOMAIN history :
        LET document == history[i].snapshot.document
        IN  /\ IsManuscript(document)
            /\ document.revisionId = history[i].revision.id

\* A commit changes the texts its Operations name, as they say and in their order, and the
\* anchors of the claims; the rest of the document is the rest of the Snapshot before it.
CommitsAreExact ==
    \A c \in 2 .. Len(history) :
        LET before == canonicalValue(history[c - 1].snapshot.document)
            after == canonicalValue(history[c].snapshot.document)
            texts == Texts(c - 1, c)
            Expected(node) ==
                IF node.type = "text" THEN [node EXCEPT !.value = Units(texts[node.id])] ELSE node
        IN  /\ after.root = [p \in DOMAIN before.root |-> Expected(before.root[p])]
            /\ [after EXCEPT !.root = before.root, !.revisionId = before.revisionId,
                             !.documentHash = before.documentHash,
                             !.academicGraph.claims = before.academicGraph.claims] = before

\* An entry that may be trusted says of its Snapshot what validating, indexing, serializing
\* and encoding it again would say, and each promised range holds the object it is promised for.
\* What is retained for a head is counted as long as its payload.
CacheIsExact ==
    LET entries == {cache.verified[s] : s \in DOMAIN cache.verified} \cup
                   {cache.provisional[s].entry : s \in DOMAIN cache.provisional}
    IN  /\ cache.retainedCodeUnits =
                (IF cache.verified = Empty
                 THEN 0 ELSE Len(createDocumentHashPayload(headSnapshot.document)))
        /\ \A entry \in entries :
            LET document == entry.document
                fresh == createDocumentIndexFromValidatedSnapshot(document)
                payload == createDocumentHashPayload(document)
                claims == document.academicGraph.claims
                fragments ==
                    {Fragment(node, serializeTextNode(node)) :
                        node \in {n \in Range(document.root) : n.type = "text"}} \cup
                    {Fragment(claims[i], serializeClaim(claims[i])) : i \in DOMAIN claims}
            IN  /\ entry.payload = payload
                /\ entry.utf8.text = payload
                /\ entry.utf8.bytes = encodeUtf8(payload)
                /\ \A id \in DOMAIN fresh.base : getNode(entry.index, id) = fresh.base[id]
                /\ entry.index.parents = fresh.parents
                /\ entry.index.entities = fresh.entities
                /\ \A fragment \in fragments :
                        fragment.identity \in DOMAIN entry.utf8.ranges =>
                            LET range == entry.utf8.ranges[fragment.identity]
                            IN  /\ Slice(payload, range.start, range.end) = fragment.json
                                /\ Slice(entry.utf8.bytes, range.startUtf8, range.endUtf8) =
                                        encodeUtf8(fragment.json)

\* The cache retains the head of an open Authority and nothing else, at most one derivation
\* beside it, and nothing of an Authority that was disposed; what it counts is what it retains.
RetentionIsBounded ==
    /\ Consistent(cache)
    /\ phase # "open" => DOMAIN cache.verified = {} /\ DOMAIN cache.provisional = {}
    /\ phase = "open" =>
        /\ DOMAIN cache.verified \subseteq {headSnapshot.object}
        /\ Cardinality(DOMAIN cache.provisional) <= 1

\* The inverse of a commit gives back the text of every node, and is refused only if a claim
\* was anchored where it has to replace, which an inverse of one Operation never meets.
UndoRestores ==
    LET before == canonicalValue(history[Len(history) - 1].snapshot.document)
        Restores(undone) ==
            IF undone.type = "ok"
            THEN canonicalValue(undone.value.snapshot.document).root = before.root
            ELSE /\ undone = errorResult("claim-anchor-mapping-failed")
                 /\ Len(head.inverse.operations) > 1
    IN  phase = "open" /\ Len(history) > 1 =>
            Restores(prepareKernelTransaction(
                        kernelOptions(undoOfHead(TransactionIds[Len(history)]), "undo"), cache))

\* From any Revision to the head: a position that leans to a unit still there stands beside
\* it, one between two units still there stays between them, and claims stand where their
\* anchors were mapped to.
PositionsFollowTheText ==
    \A from \in 1 .. Len(history) - 1 :
        LET map == Composed(from, Len(history))
            old == Original(history[from].snapshot.document)
            new == Texts(from, Len(history))
            Place(id, tagged) ==
                {i \in DOMAIN new[id] : new[id][i] = tagged}
            Follows(id, offset, affinity) ==
                LET mapped == mapPosition(map, TextPosition(id, offset, affinity))
                    at == IF mapped.status = "mapped" THEN mapped.position ELSE mapped.nearest
                    left == UNION {Place(id, old[id][i]) : i \in 1 .. offset}
                    right == UNION {Place(id, old[id][i]) : i \in offset + 1 .. Len(old[id])}
                    beside == IF affinity = "before"
                              THEN IF offset = 0 THEN {} ELSE Place(id, old[id][offset])
                              ELSE IF offset = Len(old[id]) THEN {}
                                   ELSE Place(id, old[id][offset + 1])
                IN  /\ \A i \in left : i <= at.offset
                    /\ \A i \in right : i > at.offset
                    /\ \A i \in beside :
                            /\ mapped.status = "mapped"
                            /\ i = IF affinity = "before" THEN at.offset ELSE at.offset + 1
        IN  /\ \A c \in from + 2 .. Len(history) :
                    CanCompose(Composed(from, c - 1), history[c].positionMap)
            /\ \A id \in DOMAIN old : \A offset \in 0 .. Len(old[id]) :
                    \A affinity \in Affinities : Follows(id, offset, affinity)
            /\ \A i \in DOMAIN headSnapshot.document.academicGraph.claims :
                    mapPosition(map, history[from].snapshot.document
                                        .academicGraph.claims[i].anchor.primary) =
                        Mapped(headSnapshot.document.academicGraph.claims[i].anchor.primary)

\* The log alone leads to the head again, step by step, without any of the trusted caches, and
\* every Revision has the hash of its content, though that of a Transaction of one Operation is
\* made of a patched payload.
ReplayAgrees ==
    LET Agrees(result) ==
            /\ result.type = "ok"
            /\ canonicalValue(result.value.document) = canonicalValue(headSnapshot.document)
            /\ result.value.revision = headRevision
    IN  /\ history # <<>> => Agrees(replayed)
        /\ \A i \in DOMAIN history :
                LET document == history[i].snapshot.document
                IN  document.documentHash = computeDocumentHash(document)
=============================================================================
