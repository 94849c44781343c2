--------------------------- MODULE TransactionKernel ---------------------------
(***************************************************************************)
(* The Transaction kernel (model/transaction/transaction-kernel.ts): from  *)
(* a head and a Transaction to the next Snapshot, its hash, the position   *)
(* map, the inverse and the replay input, or the reason for a refusal.     *)
(*                                                                         *)
(* A Snapshot is the record [object, document]: object is the identity of  *)
(* the JavaScript object.  A head has one of two paths: if the cache holds *)
(* a verified entry of the Snapshot object, its index and its payload are  *)
(* trusted and patched; otherwise everything is validated and hashed.      *)
(*                                                                         *)
(* Every node and claim has a "stamp", the identity of its object; new     *)
(* objects get stamps made of the new Snapshot's object.  The payload      *)
(* that is hashed holds what an Operation can change, and one opaque JSON  *)
(* value (cslJson), which may look like anything; fixed fields are left    *)
(* out.  A hash of a well-formed value never fails.                        *)
(***************************************************************************)
EXTENDS TransactionDecoder, DocumentIndexing, PositionMapping, CanonicalUtf8, SnapshotCache

CONSTANT FirstTwoDigitNumber   \* numbers from here on take two code units

Ok(value) == [type |-> "ok", value |-> value]
errorResult(reason) == [type |-> "error", reason |-> reason]
Thrown == [type |-> "thrown"]          \* an exception leaves the kernel

\* A verdict other than "ok" is the reason of an error.
onVerdict(verdict, result) == IF verdict = "ok" THEN result ELSE errorResult(verdict)

\* What follows an "ok"; anything else is returned as it is.
onOk(result, Continue(_)) == IF result.type = "ok" THEN Continue(result.value) ELSE result

-----------------------------------------------------------------------------
(* Canonical JSON, and the hash of a document.                             *)

Digits(number) ==
    IF number < FirstTwoDigitNumber
    THEN <<ToString(number)>>
    ELSE <<"1", ToString(number - FirstTwoDigitNumber)>>

serializePosition(position) ==
    IF position.kind = "text"
    THEN <<position.node>> \o Digits(position.offset) \o <<position.affinity>>
    ELSE <<position.parent>> \o Digits(position.child) \o <<position.affinity>>

serializeClaim(claim) ==
    <<"<", claim.id, claim.anchor.document.revisionId>> \o
        serializePosition(claim.anchor.primary) \o <<">">>

serializeTextNode(node) == <<"{", node.id>> \o node.value \o <<"}">>

\* The canonical JSON of the node at a place, with everything under it.
serializeNode(tree, place) ==
    LET json[p \in DOMAIN tree] ==
            LET children == childrenOf(tree[p])
            IN  IF tree[p].type = "text"
                THEN serializeTextNode(tree[p])
                ELSE <<"[", tree[p].id>> \o
                         FlattenSeq([i \in DOMAIN children |-> json[children[i]]]) \o <<"]">>
    IN  json[place]

\* Keys in canonical order: the Academic Graph (claims first) before the root.
createDocumentHashPayload(document) ==
    LET graph == document.academicGraph
    IN  FlattenSeq([i \in DOMAIN graph.claims |-> serializeClaim(graph.claims[i])]) \o
        FlattenSeq([i \in DOMAIN graph.referenceSnapshots |->
                        graph.referenceSnapshots[i].cslJson]) \o
        serializeNode(document.root, 1)

computeDocumentHash(document) == hashCanonicalText(createDocumentHashPayload(document))

-----------------------------------------------------------------------------
(* The head.                                                               *)

validateHeadConsistency(options) ==
    LET target == options.request.json.target
        revision == options.headRevision
        document == options.headSnapshot.document
    IN  IF \/ target.uri # revision.uri
           \/ target.baseRevisionId # revision.id
           \/ document.revisionId # revision.id
        THEN "base-revision-mismatch"
        ELSE IF revision.documentHash # document.documentHash
        THEN "document-hash-mismatch"
        ELSE IF options.nextRevisionId \in {Junk, revision.id}
        THEN "next-revision-conflict" ELSE "ok"

\* Without a verified entry the whole document is validated, and then hashed.
validateUncachedHead(document) ==
    andThen(IF validateDocumentSnapshot(document) = "ok" THEN "ok" ELSE "snapshot-invalid",
            IF computeDocumentHash(document) = document.documentHash
            THEN "ok" ELSE "document-hash-mismatch")

readDocumentIndex(document, entry) ==
    IF entry # NoEntry THEN entry.index ELSE createDocumentIndexFromValidatedSnapshot(document)

nodeHash(tree, id) == encodeUtf8(serializeNode(tree, placeOf(tree, id)))

validatePrecondition(precondition, document, index) ==
    CASE precondition.kind = "node-exists" ->
            IF getNode(index, precondition.nodeId) = NoNode
            THEN "node-precondition-failed" ELSE "ok"
      [] precondition.kind = "node-hash" ->
            IF getNode(index, precondition.nodeId) = NoNode
            THEN "node-precondition-failed"
            ELSE IF nodeHash(document.root, precondition.nodeId) # precondition.expected
            THEN "node-hash-precondition-failed" ELSE "ok"
      [] precondition.kind = "entity-exists" ->
            IF hasEntity(index, precondition.entityId) THEN "ok" ELSE "entity-precondition-failed"
      [] precondition.kind = "schema-version" ->
            IF precondition.expected = document.schemaVersion
            THEN "ok" ELSE "schema-version-precondition-failed"
      [] precondition.kind = "document-hash" ->
            IF precondition.expected = document.documentHash
            THEN "ok" ELSE "document-hash-precondition-failed"

validatePreconditions(preconditions, document, index) ==
    FirstFailure([i \in DOMAIN preconditions |->
                    validatePrecondition(preconditions[i], document, index)])

readSupportedOperations(operations) ==
    IF operations = <<>>
    THEN "operation-count-unsupported"
    ELSE IF \E i \in DOMAIN operations : operations[i].type # "replace-text"
    THEN "operation-unsupported" ELSE "ok"

-----------------------------------------------------------------------------
(* One ReplaceText.                                                        *)

\* Broken variant: only one end of the range is held to a code point boundary.
validateReplaceTextRange_OnlyTheStart(node, operation) ==
    /\ operation.startUtf16Offset <= operation.endUtf16Offset
    /\ operation.endUtf16Offset <= Len(node.value)
    /\ validateUtf16Boundary(node.value, operation.startUtf16Offset)
    /\ hasWellFormedUtf16(operation.replacement)

validateReplaceTextRange(node, operation) ==
    /\ operation.startUtf16Offset <= operation.endUtf16Offset
    /\ validateUtf16Boundary(node.value, operation.startUtf16Offset)
    /\ validateUtf16Boundary(node.value, operation.endUtf16Offset)
    /\ hasWellFormedUtf16(operation.replacement)

leadsTo(tree, path, target) == path # <<>> /\ Head(path) = tree[1] /\ Last(path) = target

\* The path of the index leads from this tree's root to the target, child by child.
isPathOf(tree, path, target) ==
    /\ leadsTo(tree, path, target)
    /\ tree[1].type = "manuscript"
    /\ \A i \in 2 .. Len(path) :
            \E place \in Range(childrenOf(path[i - 1])) : tree[place].id = path[i].id

\* New objects for the text node and for every node above it, the root last.
updatedNodesOf(path, value, stamp) ==
    LET text == [Last(path) EXCEPT !.value = value, !.stamp = stamp]
        ancestors == [i \in 1 .. Len(path) - 1 |-> [path[i] EXCEPT !.stamp = stamp]]
    IN  <<text>> \o Reverse(ancestors)

replaceNodes(tree, nodes) ==
    LET layer == replacementLayer(nodes)
    IN  [p \in DOMAIN tree |-> IF tree[p].id \in DOMAIN layer THEN layer[tree[p].id] ELSE tree[p]]

\* The text between the offsets of the target at the end of the path is replaced.
replaceTextNode(tree, path, target, operation, updated) ==
    IF ~ isPathOf(tree, path, target)
    THEN errorResult("target-node-not-found")
    ELSE Ok([root |-> replaceNodes(tree, updated),
             replacedText |-> Slice(target.value, operation.startUtf16Offset,
                                    operation.endUtf16Offset),
             previousTextNode |-> target,
             updatedNodes |-> updated])

\* Broken variant: the replacement is inserted and the replaced text stays.
replaceTextOn_KeepsTheOldText(tree, path, target, operation, stamp) ==
    IF target = NoNode THEN errorResult("target-node-not-found")
    ELSE IF target.type # "text" THEN errorResult("target-node-not-text")
    ELSE IF ~ validateReplaceTextRange(target, operation) THEN errorResult("position-invalid")
    ELSE replaceTextNode(
            tree, path, target, operation,
            updatedNodesOf(path,
                           Splice(target.value, operation.startUtf16Offset,
                                  operation.startUtf16Offset, operation.replacement),
                           stamp))

replaceTextOn(tree, path, target, operation, stamp) ==
    IF target = NoNode THEN errorResult("target-node-not-found")
    ELSE IF target.type # "text" THEN errorResult("target-node-not-text")
    ELSE IF ~ validateReplaceTextRange(target, operation) THEN errorResult("position-invalid")
    ELSE replaceTextNode(
            tree, path, target, operation,
            updatedNodesOf(path,
                           Splice(target.value, operation.startUtf16Offset,
                                  operation.endUtf16Offset, operation.replacement),
                           stamp))

applyReplaceText(tree, index, operation, stamp) ==
    replaceTextOn(tree, getNodePath(index, operation.textNodeId),
                  getNode(index, operation.textNodeId), operation, stamp)

positionMapStep(operation) ==
    [node |-> operation.textNodeId, start |-> operation.startUtf16Offset,
     end |-> operation.endUtf16Offset, length |-> Len(operation.replacement)]

-----------------------------------------------------------------------------
(* The claims move with the text.                                          *)

rebaseClaim(claim, map, nextRevisionId, stamp) ==
    [claim EXCEPT !.anchor.document.revisionId = nextRevisionId,
                  !.anchor.primary = mapPosition(map, @).position,
                  !.stamp = stamp]

\* Each anchor has to be mapped exactly: a deleted or orphaned one refuses the Transaction.
rebaseClaimAnchors(claims, map, nextRevisionId, stamp) ==
    IF \E i \in DOMAIN claims : mapPosition(map, claims[i].anchor.primary).status # "mapped"
    THEN errorResult("claim-anchor-mapping-failed")
    ELSE Ok([i \in DOMAIN claims |-> rebaseClaim(claims[i], map, nextRevisionId, stamp)])

-----------------------------------------------------------------------------
(* The payload of the next Snapshot, patched from the head's.              *)

\* Which object, and its canonical JSON, which tells a node from a claim of the same ID.
Fragment(object, json) ==
    [identity |-> <<Head(json), object.id, object.stamp>>, json |-> json]

\* Broken variant: any occurrence of the old JSON is taken for the node that changed.
readCanonicalReplacementRange_FirstOccurrence(utf8, previous, next) ==
    LET places == Occurrences(utf8.text, previous.json)
    IN  IF places = {}
        THEN Unpatched
        ELSE [start |-> Min(places), end |-> Min(places) + Len(previous.json),
              next |-> next.json, known |-> Unpatched, nextIdentity |-> next.identity]

\* A position promised for this very object, or the only place where its JSON occurs.
readCanonicalReplacementRange(utf8, previous, next) ==
    LET known == IF previous.identity \in DOMAIN utf8.ranges
                 THEN utf8.ranges[previous.identity]
                 ELSE Unpatched
        matches == /\ known # Unpatched
                   /\ Slice(utf8.text, known.start, known.end) = previous.json
        places == Occurrences(utf8.text, previous.json)
        At(start, range) ==
            [start |-> start, end |-> start + Len(previous.json), next |-> next.json,
             known |-> range, nextIdentity |-> next.identity]
    IN  IF matches THEN At(known.start, known)
        ELSE IF Cardinality(places) # 1 THEN Unpatched
        ELSE At(CHOOSE start \in places : TRUE, Unpatched)

hasOverlappingRanges(ranges) ==
    \E i \in 1 .. Len(ranges) - 1 : ranges[i].end > ranges[i + 1].start

\* Where each new object stands in the new payload.
cacheNextCanonicalIdentityRanges(ranges, applied) ==
    LET startOf[i \in 1 .. Len(ranges)] ==
            IF i = 1
            THEN ranges[1].start
            ELSE startOf[i - 1] + Len(ranges[i - 1].next) + ranges[i].start - ranges[i - 1].end
        Moved(i) ==
            trustedRange(startOf[i], startOf[i] + Len(ranges[i].next),
                         applied[i].startUtf8, applied[i].endUtf8)
        identities == {ranges[i].nextIdentity : i \in DOMAIN ranges}
    IN  [identity \in identities |->
            Moved(CHOOSE i \in DOMAIN ranges : ranges[i].nextIdentity = identity)]

\* The patched handle with the ranges of the new objects.
withIdentityRanges(patched, ranges) ==
    IF patched = Unpatched
    THEN Unpatched
    ELSE [patched.utf8 EXCEPT
            !.ranges = cacheNextCanonicalIdentityRanges(ranges, patched.applied)]

patchRanges(utf8, ranges) ==
    IF hasOverlappingRanges(ranges)
    THEN Unpatched
    ELSE withIdentityRanges(patchTrustedCanonicalUtf8Text(utf8, ranges), ranges)

\* ranges.sort((left, right) => left.start - right.start), which is stable.
sortedByStart(ranges) ==
    LET places == DOMAIN ranges
        order == CHOOSE f \in Bijection(places, places) :
                    \A i, j \in places : i < j =>
                        \/ ranges[f[i]].start < ranges[f[j]].start
                        \/ ranges[f[i]].start = ranges[f[j]].start /\ f[i] < f[j]
    IN  [i \in places |-> ranges[order[i]]]

patchFound(utf8, found) ==
    IF Unpatched \in Range(found)
    THEN Unpatched
    ELSE patchRanges(utf8, sortedByStart(found))

\* The handle of the next payload, or Unpatched.
patchCanonicalDocumentPayload(utf8, replacements) ==
    patchFound(utf8, [i \in DOMAIN replacements |->
                        readCanonicalReplacementRange(utf8, replacements[i].previous,
                                                      replacements[i].next)])

\* Only what hangs in the Snapshot the entry was made for may be replaced in its payload.
hasVerifiedSources(entry, application, claims) ==
    /\ leadsTo(entry.document.root, getNodePath(entry.index, application.previousTextNode.id),
               application.previousTextNode)
    /\ claims = entry.document.academicGraph.claims

replacementsOf(document, application, claims) ==
    LET Replaced(before, after, serialize(_)) ==
            [previous |-> Fragment(before, serialize(before)),
             next |-> Fragment(after, serialize(after))]
        nextClaims == document.academicGraph.claims
    IN  <<Replaced(application.previousTextNode, Head(application.updatedNodes),
                   serializeTextNode)>> \o
        [i \in DOMAIN claims |-> Replaced(claims[i], nextClaims[i], serializeClaim)]

hashPatched(document, patched) ==
    IF patched = Unpatched
    THEN [hash |-> computeDocumentHash(document),
          payload |-> createDocumentHashPayload(document), utf8 |-> Unpatched]
    ELSE [hash |-> hashTrustedCanonicalText(patched), payload |-> patched.text, utf8 |-> patched]

\* The hash of the next document, its payload, and its bytes if they were patched.
computeNextDocumentHash(document, entry, application, claims) ==
    hashPatched(document,
                IF entry = NoEntry \/ ~ hasVerifiedSources(entry, application, claims)
                THEN Unpatched
                ELSE patchCanonicalDocumentPayload(
                        entry.utf8, replacementsOf(document, application, claims)))

-----------------------------------------------------------------------------
(* Staging: the entry of the derived Snapshot, if the head has one.        *)

\* index.getNode(snapshot.root.id) === snapshot.root
indexesItsRoot(index, tree) == getNode(index, tree[1].id) = tree[1]

derivedEntry(snapshot, index, payload, utf8) ==
    [snapshot |-> snapshot.object, identity |-> <<snapshot.object, "derived">>,
     length |-> Len(payload), document |-> snapshot.document, index |-> index,
     payload |-> payload,
     utf8 |-> IF utf8 = Unpatched THEN createTrustedCanonicalUtf8Text(payload) ELSE utf8]

\* A head that was not verified has nothing to derive an entry from.
stageDerived(cache, source, snapshot, index, hashed) ==
    IF /\ isVerified(cache, source.object)
       /\ indexesItsRoot(index, snapshot.document.root)
    THEN cacheKernelDerived(cache, source.object,
                            derivedEntry(snapshot, index, hashed.payload, hashed.utf8))
    ELSE cache

-----------------------------------------------------------------------------
(* The derivation.                                                         *)

NextDocument(options, root, claims) ==
    [options.headSnapshot.document EXCEPT
        !.revisionId = options.nextRevisionId, !.root = root, !.academicGraph.claims = claims]

inverseOperation(operation, replacedText) ==
    [type |-> "replace-text",
     textNodeId |-> operation.textNodeId,
     startUtf16Offset |-> operation.startUtf16Offset,
     endUtf16Offset |-> operation.startUtf16Offset + Len(operation.replacement),
     replacement |-> replacedText]

\* Broken variant: the first Operation is undone first.
createInverseOperations_InOrder(operations, applications) ==
    [i \in DOMAIN operations |-> inverseOperation(operations[i], applications[i].replacedText)]

\* The last Operation is undone first.
createInverseOperations(operations, applications) ==
    Reverse([i \in DOMAIN operations |->
                inverseOperation(operations[i], applications[i].replacedText)])

\* Each node once, in the order of first mention, then the document hash.
createInversePreconditions(operations, documentHash) ==
    LET ids == [i \in DOMAIN operations |-> operations[i].textNodeId]
        firsts == SelectSeq([i \in DOMAIN ids |-> i],
                            LAMBDA i : \A j \in 1 .. i - 1 : ids[j] # ids[i])
    IN  Append([k \in DOMAIN firsts |-> [kind |-> "node-exists", nodeId |-> ids[firsts[k]]]],
               [kind |-> "document-hash", expected |-> documentHash])

Prepared(options, snapshot, operations, applications, map, cache) ==
    Ok([snapshot |-> snapshot,
        transactionHash |-> options.request.json,
        positionMap |-> map,
        inverse |-> [operations |-> createInverseOperations(operations, applications),
                     preconditions |->
                        createInversePreconditions(operations, snapshot.document.documentHash)],
        replayInput |-> options.request,
        cache |-> cache])

positionMapOf(options, operations) ==
    createReplaceTextTransactionPositionMap(
        options.headRevision.id, options.nextRevisionId,
        [i \in DOMAIN operations |-> positionMapStep(operations[i])])

NextSnapshot(options, document, hashed) ==
    [object |-> options.object,
     document |-> [document EXCEPT !.documentHash = hashed.hash]]

\* One Operation: the index is derived from the head's, and the hash from its payload.
stageVerifiedDerivedSnapshot(options, cache, index, operation, applied, map, snapshot, hashed) ==
    Prepared(options, snapshot, <<operation>>, <<applied>>, map,
             IF CanReplace(index, applied.updatedNodes)
             THEN stageDerived(cache, options.headSnapshot, snapshot,
                               withNodeReplacements(index, applied.updatedNodes), hashed)
             ELSE cache)

finishSingle(options, cache, index, operation, applied, map, document, hashed) ==
    stageVerifiedDerivedSnapshot(options, cache, index, operation, applied, map,
                                 NextSnapshot(options, document, hashed), hashed)

hashSingle(options, cache, index, entry, operation, applied, map, document) ==
    finishSingle(options, cache, index, operation, applied, map, document,
                 computeNextDocumentHash(document, entry, applied,
                                         options.headSnapshot.document.academicGraph.claims))

rebase(options, map) ==
    rebaseClaimAnchors(options.headSnapshot.document.academicGraph.claims, map,
                       options.nextRevisionId, <<options.object, 1>>)

\* The map is built before the range is checked: a reversed range makes its constructor throw.
prepareReplaceTextTransaction(options, cache, index, entry, operation, map) ==
    IF ~ validateReplaceTextOptions(positionMapStep(operation))
    THEN Thrown
    ELSE onOk(applyReplaceText(options.headSnapshot.document.root, index, operation,
                               <<options.object, 1>>),
              LAMBDA applied :
                onOk(rebase(options, map),
                     LAMBDA claims :
                        hashSingle(options, cache, index, entry, operation, applied, map,
                                   NextDocument(options, applied.root, claims))))

\* The draft after an Operation: the tree, its index, and what was applied so far.
nextDraft(draft, applied) ==
    IF ~ CanReplace(draft.index, applied.updatedNodes)
    THEN errorResult("snapshot-invalid")
    ELSE Ok([root |-> applied.root,
             index |-> withNodeReplacements(draft.index, applied.updatedNodes),
             applications |-> Append(draft.applications, applied)])

draftStep(draft, operation, stamp) ==
    onOk(applyReplaceText(draft.root, draft.index, operation, stamp),
         LAMBDA applied : nextDraft(draft, applied))

applyInOrder(tree, index, operations, object) ==
    LET result[n \in 0 .. Len(operations)] ==
            IF n = 0
            THEN Ok([root |-> tree, index |-> index, applications |-> <<>>])
            ELSE onOk(result[n - 1],
                      LAMBDA draft : draftStep(draft, operations[n], <<object, n>>))
    IN  result[Len(operations)]

\* Several Operations: the draft is validated, indexed and hashed as a whole.
finishMultiple(options, cache, operations, draft, map, document, hashed) ==
    IF validateDocumentSnapshot(document) # "ok"
    THEN errorResult("snapshot-invalid")
    ELSE Prepared(options, NextSnapshot(options, document, hashed), operations,
                  draft.applications, map,
                  stageDerived(cache, options.headSnapshot,
                               NextSnapshot(options, document, hashed),
                               createDocumentIndexFromValidatedSnapshot(document), hashed))

hashMultiple(options, cache, operations, draft, map, document) ==
    finishMultiple(options, cache, operations, draft, map, document,
                   hashPatched(document, Unpatched))

prepareMultipleReplaceTextTransaction(options, cache, index, operations, map) ==
    onOk(applyInOrder(options.headSnapshot.document.root, index, operations, options.object),
         LAMBDA draft :
            onOk(rebase(options, map),
                 LAMBDA claims :
                    hashMultiple(options, cache, operations, draft, map,
                                 NextDocument(options, draft.root, claims))))

prepareOperations(options, cache, index, entry, operations) ==
    IF Len(operations) > 1
    THEN prepareMultipleReplaceTextTransaction(options, cache, index, operations,
                                               positionMapOf(options, operations))
    ELSE prepareReplaceTextTransaction(options, cache, index, entry, operations[1],
                                       positionMapOf(options, operations))

prepareOnIndex(options, cache, index, entry, json) ==
    onVerdict(andThen(validatePreconditions(json.preconditions, options.headSnapshot.document,
                                            index),
                      readSupportedOperations(json.operations)),
              prepareOperations(options, cache, index, entry, json.operations))

prepareOnHead(options, cache, entry) ==
    onVerdict(andThen(decodeStrictTransactionV1(options.request),
              andThen(validateHeadConsistency(options),
                      IF entry # NoEntry
                      THEN "ok" ELSE validateUncachedHead(options.headSnapshot.document))),
              prepareOnIndex(options, cache,
                             readDocumentIndex(options.headSnapshot.document, entry), entry,
                             options.request.json))

\* options: request, headRevision, headSnapshot, nextRevisionId, and object for what is new.
prepareKernelTransaction(options, cache) ==
    prepareOnHead(options, cache, getVerified(cache, options.headSnapshot.object))
=============================================================================
