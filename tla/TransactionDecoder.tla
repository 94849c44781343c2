-------------------------- MODULE TransactionDecoder --------------------------
(***************************************************************************)
(* The strict decoder of Transactions                                      *)
(* (model/transaction/transaction-runtime.ts): a bounded capture of the    *)
(* request's JSON values, then the closed V1 shapes.                       *)
(*                                                                         *)
(* A request is the record [json, walk]: json is the Transaction object,   *)
(* and walk its JSON values in the order the capture takes them from its   *)
(* stack, each with what the capture looks at.  Decoding keeps the object  *)
(* as it is: an unknown field is an error, never dropped.                  *)
(***************************************************************************)
EXTENDS ManuscriptRules

CONSTANTS
    MAX_TRANSACTION_CANONICAL_UTF8_BYTES,
    MAX_TRANSACTION_JSON_VALUES,
    MAX_TRANSACTION_OPERATIONS,
    MAX_TRANSACTION_PRECONDITIONS,
    MAX_TRANSACTION_TOOL_INVOCATION_IDS,
    MAX_CANONICAL_JSON_DEPTH

-----------------------------------------------------------------------------
(* The capture.  A visit has a kind, the bytes it adds to the canonical    *)
(* text, its depth, the number of its items or keys, and three verdicts:   *)
(* sound (a string that is well-formed, a number that is finite, an array  *)
(* or object whose keys are exactly its own enumerable data properties),   *)
(* plain (the ordinary prototype), and cyclic (it contains itself).        *)

\* The last verdict of the capture, and what it has counted.
Start == [verdict |-> "within-limits", bytes |-> 0, values |-> 0]

remaining(state) == MAX_TRANSACTION_CANONICAL_UTF8_BYTES - state.bytes

accountTransactionBytes(state, bytes) ==
    IF bytes > remaining(state)
    THEN [state EXCEPT !.verdict = "too-large"]
    ELSE [state EXCEPT !.bytes = @ + bytes]

\* A string too long for what remains is not even looked at for being well-formed.
inspectPrimitive(state, visit) ==
    IF visit.kind \in {"string", "number"} /\ ~ visit.sound
       /\ ~ (visit.kind = "string" /\ visit.bytes > remaining(state))
    THEN [state EXCEPT !.verdict = "invalid"]
    ELSE accountTransactionBytes(state, visit.bytes)

inspectResourceContainer(state, visit) ==
    IF visit.depth > MAX_CANONICAL_JSON_DEPTH \/ visit.cyclic \/ ~ visit.plain
    THEN [state EXCEPT !.verdict = "invalid"]
    ELSE IF visit.size > MAX_TRANSACTION_JSON_VALUES - state.values
    THEN [state EXCEPT !.verdict = "too-large"]
    ELSE IF ~ visit.sound
    THEN [state EXCEPT !.verdict = "invalid"]
    ELSE accountTransactionBytes(state, visit.bytes)

inspectCounted(state, visit) ==
    CASE state.values > MAX_TRANSACTION_JSON_VALUES -> [state EXCEPT !.verdict = "too-large"]
      [] state.values <= MAX_TRANSACTION_JSON_VALUES /\ visit.kind \in {"array", "record"} ->
            inspectResourceContainer(state, visit)
      [] state.values <= MAX_TRANSACTION_JSON_VALUES
            /\ visit.kind \in {"null", "boolean", "number", "string"} ->
            inspectPrimitive(state, visit)
      [] OTHER -> [state EXCEPT !.verdict = "invalid"]

inspectPendingResourceValue(state, visit) ==
    IF state.verdict # "within-limits"
    THEN state
    ELSE inspectCounted([state EXCEPT !.values = @ + 1], visit)

captureCanonicalTransaction(walk) ==
    FoldLeft(inspectPendingResourceValue, Start, walk).verdict

exceeds(items, maximum) == items # Junk /\ Len(items) > maximum

\* Looked at before the capture, and again on the captured copy.
inspectTransactionCollectionLimits(json) ==
    \/ Has(json, "operations") /\ exceeds(json.operations, MAX_TRANSACTION_OPERATIONS)
    \/ Has(json, "preconditions") /\ exceeds(json.preconditions, MAX_TRANSACTION_PRECONDITIONS)
    \/ /\ Has(json, "metadata") /\ json.metadata # Junk
       /\ Has(json.metadata, "toolInvocationIds")
       /\ exceeds(json.metadata.toolInvocationIds, MAX_TRANSACTION_TOOL_INVOCATION_IDS)

captureTransactionWithinResourceLimits(request) ==
    IF request.json = Junk
    THEN "invalid"
    ELSE IF inspectTransactionCollectionLimits(request.json)
    THEN "too-large"
    ELSE captureCanonicalTransaction(request.walk)

-----------------------------------------------------------------------------
(* The closed shapes.                                                      *)

decodeTarget(target) == Closed(target, [uri |-> Valid, baseRevisionId |-> Valid], NoKeys)

decodeActor(actor) == isValidActorRef(actor)

TextRange == [textNodeId |-> Valid, startUtf16Offset |-> Nat, endUtf16Offset |-> Nat]
Relation ==
    [fromEntityId |-> Valid, toEntityId |-> Valid,
     relation |-> {"claim-supports-evidence", "claim-partially-supports-evidence",
                   "claim-contradicts-evidence", "claim-context-only-evidence",
                   "claim-unclear-evidence", "citation-references-reference",
                   "evidence-located-in-source", "cross-reference-targets"}]

\* OPERATION_DECODERS: the keys of each kind of Operation beside id and type.
OperationShapes ==
    [type \in {"replace-text"} |-> TextRange @@ [replacement |-> Valid]] @@
    [type \in {"add-mark", "remove-mark"} |-> TextRange @@ [mark |-> Valid]] @@
    [type \in {"insert-node"} |-> [parentNodeId |-> Valid, childIndex |-> Nat, node |-> Valid]] @@
    [type \in {"delete-node"} |-> [targetNodeId |-> Valid, expectedNodeHash |-> Valid]] @@
    [type \in {"move-node"} |->
        [targetNodeId |-> Valid, newParentNodeId |-> Valid, childIndex |-> Nat]] @@
    [type \in {"set-node-attributes"} |-> [nodeId |-> Valid, attributes |-> Valid]] @@
    [type \in {"create-academic-entity"} |-> [entity |-> Valid]] @@
    [type \in {"update-academic-entity"} |-> [entityId |-> Valid, patch |-> Valid]] @@
    [type \in {"delete-academic-entity"} |-> [entityId |-> Valid, expectedEntityHash |-> Valid]] @@
    [type \in {"link-academic-entities", "unlink-academic-entities"} |-> Relation]

isPatch(patch) ==
    patch # <<>> /\ IsArray(patch, LAMBDA entry : Closed(entry, [field |-> Valid, value |-> Valid], NoKeys))

\* What a shape of keys does not say about an Operation.
isPayload(operation) ==
    CASE operation.type = "replace-text" -> isString(operation.replacement)
      [] operation.type \in {"add-mark", "remove-mark"} -> isValidMark(operation.mark)
      [] operation.type = "insert-node" -> validateInsertableNode(operation.node) = "ok"
      [] operation.type = "set-node-attributes" -> Keys(operation.attributes) # {}
      [] operation.type = "create-academic-entity" -> isValidAcademicEntityShape(operation.entity)
      [] operation.type = "update-academic-entity" -> isPatch(operation.patch)
      [] OTHER -> TRUE

decodeOperation(operation) ==
    /\ operation # Junk
    /\ Has(operation, "type") /\ operation.type \in DOMAIN OperationShapes
    /\ Closed(operation,
              [id |-> Valid, type |-> Valid] @@ OperationShapes[operation.type], NoKeys)
    /\ isPayload(operation)

\* At least one Operation, and no Operation ID twice.
decodeOperations(operations) ==
    /\ IsArray(operations, decodeOperation)
    /\ operations # <<>>
    /\ IsInjective([i \in DOMAIN operations |-> operations[i].id])

\* The text of a schema version counts, so it is not abstracted to its length.
decodePrecondition(precondition) ==
    \/ Closed(precondition, [kind |-> {"node-exists"}, nodeId |-> Valid], NoKeys)
    \/ Closed(precondition, [kind |-> {"node-hash"}, nodeId |-> Valid, expected |-> Valid], NoKeys)
    \/ Closed(precondition, [kind |-> {"entity-exists"}, entityId |-> Valid], NoKeys)
    \/ Closed(precondition, [kind |-> {"schema-version"}, expected |-> Valid], NoKeys)
    \/ Closed(precondition, [kind |-> {"document-hash"}, expected |-> Valid], NoKeys)

TransactionSources ==
    {"human-input", "command", "import", "migration", "validator-fix", "proposal-accept"}

\* An accepted Proposal is named with its revision.
decodeMetadata(metadata) ==
    /\ Closed(metadata,
              [source |-> TransactionSources],
              [undoGroupId |-> Valid, proposalId |-> Valid, proposalRevision |-> PositiveIntegers,
               cometTaskId |-> Valid, toolInvocationIds |-> Valid, idempotencyKey |-> 1 .. 256])
    /\ OptionalField(metadata, "toolInvocationIds",
                     LAMBDA ids : IsArray(ids, LAMBDA id : id # Junk) /\ IsInjective(ids))
    /\ metadata.source = "proposal-accept" =>
            Has(metadata, "proposalId") /\ Has(metadata, "proposalRevision")

decodeTransaction(json) ==
    /\ Closed(json,
              [id |-> Valid, target |-> Valid, actor |-> Valid, operations |-> Valid,
               preconditions |-> Valid, metadata |-> Valid, createdAt |-> Valid],
              [intent |-> 0 .. 2048])
    /\ decodeTarget(json.target)
    /\ decodeActor(json.actor)
    /\ decodeOperations(json.operations)
    /\ IsArray(json.preconditions, decodePrecondition)
    /\ decodeMetadata(json.metadata)

\* "ok", or why the request is refused.
decodeStrictTransactionV1(request) ==
    LET captured == captureTransactionWithinResourceLimits(request)
    IN  IF captured = "too-large" THEN "transaction-too-large"
        ELSE IF captured = "invalid" \/ ~ decodeTransaction(request.json)
        THEN "transaction-invalid" ELSE "ok"
=============================================================================
